---- MODULE Spec2Model ----
(***************************************************************************)
(* A state-machine model of the matter-js TypeScript port: the Composite   *)
(* tree with its caches (src/src/Composite.ts), Body construction          *)
(* (src/unnamed/part_011) and the Engine step (src/unnamed/part_013) with  *)
(* the Detector, Pairs, Resolver, Constraint and Sleeping modules it calls.*)
(***************************************************************************)
EXTENDS Integers, Sequences, FiniteSets, TLC

(***************************************************************************)
(* Bounds of the model.                                                    *)
(***************************************************************************)
MaxComposites == 3
MaxObjects == 2
\* The number of operations performed on the model after its construction
MaxOps == 3
MaxBodies == 2
MaxConstraints == 1
\* Fixed-point resolution: lengths are held in 1/FP of a pixel.
FP == 100

VARIABLES
    composite,      \* id -> the Composite object created by Composite.create
    body,           \* sequence of the Body objects created so far
    constraint,     \* sequence of the Constraint objects created so far
    arrays,         \* the arrays that `parts` fields refer to; arrays[1] is defaults.parts
    nextIdCounter,  \* Common._nextId
    error,          \* the exception the last operation raised, or "none"
    lastOp,         \* the last operation performed
    lastResult,     \* the value returned by the last allBodies/allConstraints/allComposites
    opCount,        \* the number of operations performed since construction
    engine,         \* the Engine object created by Engine.create, <<>> before that
    runner,         \* the Runner object created by Runner.create, <<>> before that
    refs,           \* refs[b][f]: the call of Body.create whose options held the object
                    \* that field f of body b refers to, 0 for the object of `defaults`
    contactPair,    \* the pair of two colliding bodies with its collision record and
                    \* its two Contact objects, <<>> while pairs.table has no such pair
    nextCategoryBits, \* Body's _nextCategory, as the set of the bits set in it
    animationFrames \* the browser's animation frame requests: the handles `pending`,
                    \* the handle `next` the next request gets, and whether
                    \* Runner.stop has been called since Runner.run (`stopped`)

\* No animation frame has been requested
NoFrames == [pending |-> {}, next |-> 1, stopped |-> FALSE]

compositeVars == <<composite, error, lastOp, lastResult>>
bodyVars == <<body, constraint, arrays, nextIdCounter, engine, runner, refs, contactPair, nextCategoryBits,
           animationFrames>>
vars ==
    <<composite, body, constraint, arrays, nextIdCounter, error, lastOp, lastResult, opCount,
      engine, runner, refs, contactPair, nextCategoryBits, animationFrames>>

(***************************************************************************)
(* Helpers on sequences.                                                   *)
(***************************************************************************)
Range(s) == {s[i] : i \in 1..Len(s)}

\* Array.prototype.indexOf: the first position of x in s, 0 when absent
\* (JavaScript's -1).
IndexOf(s, x) ==
    IF x \in Range(s) THEN CHOOSE i \in 1..Len(s) : s[i] = x /\ \A j \in 1..(i - 1) : s[j] # x
    ELSE 0

\* F applied to x, x being evaluated first: one iteration of a loop is
\* computed before the next one starts.
Then(x, F(_)) == CHOOSE r \in {F(s) : s \in {x}} : TRUE

\* The array with the elements f[1], ..., f[Len(f)], each computed once
Array(f) == f \o <<>>

\* Array.prototype.splice(position, 1)
RemoveAt(s, i) == SubSeq(s, 1, i - 1) \o SubSeq(s, i + 1, Len(s))

(***************************************************************************)
(* Common (src/src/core/Common.ts)                                         *)
(***************************************************************************)
\* _baseDelta = 1000 / 60 ms, in units of 1/60 ms
baseDelta == 1000

Abs(x) == IF x < 0 THEN -x ELSE x

\* x / |x| on one axis, 0 at 0 (Math.sign, not Common.sign)
Sign(x) == IF x < 0 THEN -1 ELSE IF x > 0 THEN 1 ELSE 0

Min(a, b) == IF a < b THEN a ELSE b

Max(a, b) == IF a > b THEN a ELSE b

\* x * num / den, truncated towards zero
MulDiv(x, num, den) == Sign(x) * Sign(num) * ((Abs(x) * Abs(num)) \div den)

\* Common.clamp(value, min, max)
clamp(value, min, max) == IF value < min THEN min ELSE IF value > max THEN max ELSE value

\* nextId(): ++_nextId
nextId(counter) == counter + 1

(***************************************************************************)
(* Body (src/unnamed/part_011).  The model is one-dimensional: a body is   *)
(* a segment on the x axis, every vector is its x component, and angles    *)
(* are left out.  A vector-valued field is held by value.  A category or   *)
(* mask is the set of the positions of its one bits, so that `a & b` is    *)
(* the intersection.  Lengths are in 1/FP pixel, frictionAir and           *)
(* restitution in hundredths, and a force is held as the displacement it   *)
(* causes on a unit mass in one step of baseDelta.  Products with a        *)
(* fractional factor are truncated towards zero.                           *)
(***************************************************************************)
\* `undefined` as the value of body.parent, body.parts or body.id
undefined == 0
\* The mass Infinity that setStatic assigns
Infinity == 1000000000
\* NaN, the value of 0 / 0, Infinity / Infinity and 0 * Infinity
NaN == 2000000000

\* x * y and x / y on the integers, Infinity, -Infinity and NaN.  The finite
\* operands the model divides are 0 and 1 by 1 and 6 by 6, so that no
\* quotient is rounded.
Times(x, y) ==
    IF x = NaN \/ y = NaN THEN NaN
    ELSE IF Abs(x) = Infinity \/ Abs(y) = Infinity
    THEN (IF x = 0 \/ y = 0 THEN NaN ELSE Sign(x) * Sign(y) * Infinity)
    ELSE x * y
Quotient(x, y) ==
    IF x = NaN \/ y = NaN THEN NaN
    ELSE IF y = 0 THEN (IF x = 0 THEN NaN ELSE Sign(x) * Infinity)
    ELSE IF Abs(x) = Infinity THEN (IF Abs(y) = Infinity THEN NaN ELSE Sign(x) * Sign(y) * Infinity)
    ELSE IF Abs(y) = Infinity THEN 0
    ELSE x \div y
\* The array `parts: []` of the `defaults` object, one array for the module
defaultsParts == 1

\* `id: nextId()` in the `defaults` object literal: evaluated once, when the
\* module is loaded, which is the first call of nextId
defaultsId == 1

\* The `defaults` object
defaults ==
    [id |-> defaultsId,
     parts |-> defaultsParts,
     vertices |-> [min |-> 0, max |-> 40 * FP],
     position |-> 0,
     force |-> 0,
     positionImpulse |-> 0,
     constraintImpulse |-> 0,
     totalContacts |-> 0,
     speed |-> 0,
     velocity |-> 0,
     isSensor |-> FALSE,
     isStatic |-> FALSE,
     isSleeping |-> FALSE,
     sleepCounter |-> 0,
     motion |-> 0,
     sleepThreshold |-> 60,
     collisionFilter |-> [category |-> {0}, mask |-> 0..31, group |-> 0],
     restitution |-> 0,
     frictionAir |-> 1,
     slop |-> FP \div 20,
     deltaTime |-> baseDelta,
     bounds |-> [min |-> 0, max |-> 40 * FP],
     positionPrev |-> 0,
     parent |-> undefined,
     density |-> 1,
     area |-> 0,
     mass |-> 0,
     inverseMass |-> 0,
     inertia |-> 0,
     inverseInertia |-> 0,
     original |-> <<>>]

\* Bounds.update(bounds, vertices, velocity)
boundsUpdate(vertices, velocity) ==
    [min |-> vertices.min + (IF velocity > 0 THEN 0 ELSE velocity),
     max |-> vertices.max + (IF velocity > 0 THEN velocity ELSE 0)]

\* { ...defaults, ...base }: the fields of base, then those of defaults
Spread(dflt, base) ==
    [f \in DOMAIN dflt |-> IF f \in DOMAIN base THEN base[f] ELSE dflt[f]]

\* _initProperties(body, options) for the body that becomes body number b:
\* `parts: body.parts ?? [body]` allocates an array only when the spread
\* left parts undefined, `parent: body.parent ?? body` likewise;
\* `mass: options.mass || body.mass` keeps the spread's value.
initProperties(arr, b, bodyRec) ==
    LET newParts == bodyRec.parts = undefined
    IN [arr |-> IF newParts THEN Append(arr, <<b>>) ELSE arr,
        body |-> [bodyRec EXCEPT !.parts = IF newParts THEN Len(arr) + 1 ELSE @,
                                 !.parent = IF @ = undefined THEN b ELSE @,
                                 !.bounds = boundsUpdate(bodyRec.vertices, bodyRec.velocity)]]

\* Body.create(base), the new body being body number b
bodyCreate(arr, b, base) ==
    initProperties(arr, b, Spread(defaults, base))

\* The fields of `defaults` that hold an object (parts, an array, is held
\* in arrays).  `{ ...defaults, ...base }` copies the reference: a body has
\* the object of `defaults` in every such field that base does not give.
ObjectFields ==
    {"vertices", "position", "force", "positionImpulse", "constraintImpulse", "velocity",
     "collisionFilter", "bounds", "positionPrev"}

\* The objects of the body made by the b-th call, Body.create(base): those
\* of base, which no other call is given, and those of `defaults`
createRefs(b, base) == [f \in ObjectFields |-> IF f \in DOMAIN base THEN b ELSE 0]

\* `defaults` as it is now: its objects with the values they have been
\* given through the bodies rf says refer to them
defaultsNow(bs, rf) ==
    [f \in DOMAIN defaults |->
        IF f \in ObjectFields /\ \E d \in DOMAIN bs : rf[d][f] = 0
        THEN bs[CHOOSE d \in DOMAIN bs : rf[d][f] = 0][f]
        ELSE defaults[f]]

\* The bodies after an operation that took them from old to new by writing
\* into the objects of one body (`body.force.x += force.x`): every body that
\* refers to a written object has the value written.
writeThrough(old, new, rf) ==
    Array([c \in DOMAIN new |->
        [f \in DOMAIN new[c] |->
            LET written == {d \in DOMAIN old \cap DOMAIN new :
                               /\ f \in ObjectFields
                               /\ rf[d][f] = rf[c][f]
                               /\ new[d][f] # old[d][f]}
            IN IF written = {} THEN new[c][f]
               ELSE new[CHOOSE d \in written : TRUE][f]]])

\* The first lines of Body.setParts(body, parts): the copy of `parts`, the
\* truncation of body.parts and the pushes.  bs is the body sequence.
RECURSIVE setPartsPush(_, _, _, _, _)
setPartsPush(st, b, parts, i, ref) ==
    IF i > Len(parts) THEN st
    ELSE IF parts[i] = b THEN setPartsPush(st, b, parts, i + 1, ref)
    ELSE setPartsPush([st EXCEPT !.bs[parts[i]].parent = b,
                                 !.arr[ref] = Append(@, parts[i])],
                      b, parts, i + 1, ref)
setParts(bs, arr, b, parts) ==
    LET ref == bs[b].parts
        s0 == [bs |-> [bs EXCEPT ![b].parent = b], arr |-> [arr EXCEPT ![ref] = <<b>>]]
    IN setPartsPush(s0, b, parts, 1, ref)

\* Body.setStatic(body, isStatic) on one part
setStaticPart(part, isStatic) ==
    IF isStatic
    THEN [part EXCEPT !.original = IF ~part.isStatic
                                   THEN <<[mass |-> part.mass,
                                           inertia |-> part.inertia,
                                           density |-> part.density,
                                           inverseMass |-> part.inverseMass,
                                           inverseInertia |-> part.inverseInertia]>>
                                   ELSE @,
                      !.mass = Infinity,
                      !.inertia = Infinity,
                      !.density = Infinity,
                      !.inverseMass = 0,
                      !.inverseInertia = 0,
                      !.positionPrev = part.position,
                      !.speed = 0,
                      !.motion = 0,
                      !.isStatic = TRUE]
    ELSE IF part.original # <<>>
    THEN [part EXCEPT !.mass = part.original[1].mass,
                      !.inertia = part.original[1].inertia,
                      !.density = part.original[1].density,
                      !.inverseMass = part.original[1].inverseMass,
                      !.inverseInertia = part.original[1].inverseInertia,
                      !.original = <<>>,
                      !.isStatic = FALSE]
    ELSE [part EXCEPT !.isStatic = FALSE]

\* Body.setStatic(body, isStatic): the loop over body.parts
setStatic(bs, arr, b, isStatic) ==
    Array([i \in DOMAIN bs |->
        IF i \in Range(arr[bs[b].parts]) THEN setStaticPart(bs[i], isStatic) ELSE bs[i]])

\* Body.setMass(body, mass).  moment = inertia / (body.mass / 6) is computed
\* as 6 * inertia / body.mass and moment * (mass / 6) as moment * mass / 6.
setMass(bd, mass) ==
    LET moment == Quotient(Times(6, bd.inertia), bd.mass)
        inertia == Quotient(Times(moment, mass), 6)
    IN [bd EXCEPT !.inertia = inertia,
                  !.inverseInertia = Quotient(1, inertia),
                  !.mass = mass,
                  !.inverseMass = Quotient(1, mass),
                  !.density = Quotient(mass, bd.area)]

\* Body.setDensity(body, density)
setDensity(bd, density) == [setMass(bd, Times(density, bd.area)) EXCEPT !.density = density]

\* Body.setInertia(body, inertia)
setInertia(bd, inertia) ==
    [bd EXCEPT !.inertia = inertia, !.inverseInertia = Quotient(1, inertia)]

\* The loop over body.parts that Body.update, Body.setPosition,
\* Resolver.postSolvePosition and Constraint.postSolveAll share: each part's
\* vertices are translated by d and its bounds updated with the body's
\* velocity; part.position moves too for the parts from index `from` on
\* (0 or 1 in the source).
partsTranslate(bs, arr, b, d, velocity, from) ==
    LET parts == arr[bs[b].parts]
    IN Array([i \in DOMAIN bs |->
           IF i \in Range(parts)
           THEN LET vertices == [min |-> bs[i].vertices.min + d, max |-> bs[i].vertices.max + d]
                IN [bs[i] EXCEPT !.vertices = vertices,
                                 !.bounds = boundsUpdate(vertices, velocity),
                                 !.position = IF IndexOf(parts, i) > from THEN @ + d ELSE @]
           ELSE bs[i]])

\* Body.setPosition(body, position) with updateVelocity undefined
setPosition(bs, arr, b, position) ==
    LET delta == position - bs[b].position
        s1 == [bs EXCEPT ![b].positionPrev = @ + delta]
    IN partsTranslate(s1, arr, b, delta, s1[b].velocity, 0)

\* Body.update(body, deltaTime)
bodyUpdate(bs, arr, b, deltaTime) ==
    LET bd == bs[b]
        velocityPrev == MulDiv(bd.position - bd.positionPrev, deltaTime,
                               IF bd.deltaTime # 0 THEN bd.deltaTime ELSE deltaTime)
        velocity == MulDiv(velocityPrev, 100 * baseDelta - bd.frictionAir * deltaTime,
                           100 * baseDelta)
                    + MulDiv(MulDiv(MulDiv(bd.force, 1, bd.mass), deltaTime, baseDelta),
                             deltaTime, baseDelta)
        s1 == [bs EXCEPT ![b].velocity = velocity,
                         ![b].positionPrev = bd.position,
                         ![b].position = bd.position + velocity,
                         ![b].deltaTime = deltaTime]
    IN partsTranslate(s1, arr, b, velocity, velocity, 1)

\* Body.updateVelocities(body)
updateVelocities(bd) ==
    LET velocity == MulDiv(bd.position - bd.positionPrev, baseDelta, bd.deltaTime)
    IN [bd EXCEPT !.velocity = velocity, !.speed = Abs(velocity)]

\* Body.applyForce(body, body.position, force)
applyForce(bd, force) == [bd EXCEPT !.force = @ + force]

\* Body.getSpeed(body)
getSpeed(bd) == Abs(MulDiv(bd.position - bd.positionPrev, baseDelta, bd.deltaTime))

(***************************************************************************)
(* Sleeping (src/src/core/Sleeping.ts).  motion is a squared speed, held   *)
(* in 1/FP of a pixel squared.                                             *)
(***************************************************************************)
\* _motionSleepThreshold = 0.08, in hundredths
motionSleepThresholdPercent == 8
\* _minBias = 0.9, in hundredths
minBiasPercent == 90

motionSleepThreshold == (motionSleepThresholdPercent * FP) \div 100

\* Sleeping.set(body, isSleeping).  No listener is registered on a body, so
\* the sleepStart and sleepEnd triggers do nothing.
sleepingSet(bd, isSleeping) ==
    IF isSleeping
    THEN [bd EXCEPT !.isSleeping = TRUE,
                    !.sleepCounter = bd.sleepThreshold,
                    !.positionImpulse = 0,
                    !.positionPrev = bd.position,
                    !.speed = 0,
                    !.motion = 0]
    ELSE [bd EXCEPT !.isSleeping = FALSE, !.sleepCounter = 0]

\* The events Sleeping.set(body, isSleeping) triggers on the body
sleepingSetEvents(bd, isSleeping) ==
    IF isSleeping /\ ~bd.isSleeping THEN <<"sleepStart">>
    ELSE IF ~isSleeping /\ bd.isSleeping THEN <<"sleepEnd">>
    ELSE <<>>

\* Sleeping.update with the counter compared with sleepThreshold itself,
\* the time scale of the step left out
sleepingUpdateCallUnscaled(bd, delta) ==
    LET speed == getSpeed(bd)
        motion == (speed * speed) \div FP
        averaged == (minBiasPercent * Min(bd.motion, motion)
                       + (100 - minBiasPercent) * Max(bd.motion, motion)) \div 100
        b1 == [bd EXCEPT !.motion = averaged]
    IN IF bd.force # 0 THEN [body |-> bd, set |-> <<FALSE>>]
       ELSE IF b1.sleepThreshold > 0 /\ b1.motion < motionSleepThreshold
       THEN LET b2 == [b1 EXCEPT !.sleepCounter = @ + 1]
            IN IF b2.sleepCounter >= b2.sleepThreshold
               THEN [body |-> b2, set |-> <<TRUE>>]
               ELSE [body |-> b2, set |-> <<>>]
       ELSE IF b1.sleepCounter > 0
       THEN [body |-> [b1 EXCEPT !.sleepCounter = @ - 1], set |-> <<>>]
       ELSE [body |-> b1, set |-> <<>>]

\* Sleeping.update(bodies, delta) for one body, up to its call of
\* Sleeping.set: the body then, and the argument of the call, if any
sleepingUpdateCall(bd, delta) ==
    LET speed == getSpeed(bd)
        motion == (speed * speed) \div FP
        minMotion == Min(bd.motion, motion)
        maxMotion == Max(bd.motion, motion)
        averaged == (minBiasPercent * minMotion + (100 - minBiasPercent) * maxMotion) \div 100
        b1 == [bd EXCEPT !.motion = averaged]
    IN IF bd.force # 0 THEN [body |-> bd, set |-> <<FALSE>>]
       ELSE IF b1.sleepThreshold > 0 /\ b1.motion < motionSleepThreshold
       THEN LET b2 == [b1 EXCEPT !.sleepCounter = @ + 1]
            IN IF delta > 0 /\ b2.sleepCounter * delta >= b2.sleepThreshold * baseDelta
               THEN [body |-> b2, set |-> <<TRUE>>]
               ELSE [body |-> b2, set |-> <<>>]
       ELSE IF b1.sleepCounter > 0
       THEN [body |-> [b1 EXCEPT !.sleepCounter = @ - 1], set |-> <<>>]
       ELSE [body |-> b1, set |-> <<>>]

\* One iteration of the loop of Sleeping.update
sleepingUpdateBody(bd, delta) ==
    LET call == sleepingUpdateCall(bd, delta)
    IN IF call.set = <<>> THEN call.body ELSE sleepingSet(call.body, call.set[1])

\* Sleeping.update(bodies, delta)
sleepingUpdate(bs, bodies, delta) ==
    Array([i \in DOMAIN bs |-> IF i \in Range(bodies) THEN sleepingUpdateBody(bs[i], delta) ELSE bs[i]])

(***************************************************************************)
(* Constraint (src/src/constraint/Constraint.ts)                           *)
(***************************************************************************)
\* `bodyA: undefined`, the end of a constraint fixed to a world point
NoBody == 0

\* Constraint.create(options) with options bodyA, bodyB, pointA, pointB and,
\* when hasLength, length; id is the value nextId() returned.
constraintCreate(bs, id, bodyA, bodyB, pointA, pointB, hasLength, length) ==
    LET initialPointA == IF bodyA # NoBody THEN bs[bodyA].position + pointA ELSE pointA
        initialPointB == IF bodyB # NoBody THEN bs[bodyB].position + pointB ELSE pointB
        len == IF hasLength THEN length ELSE Abs(initialPointA - initialPointB)
    IN [id |-> id, bodyA |-> bodyA, bodyB |-> bodyB, pointA |-> pointA, pointB |-> pointB,
        length |-> len,
        stiffness |-> [num |-> IF len > 0 THEN 10 ELSE 7, den |-> 10]]

\* _warming = 0.4, in hundredths
warmingPercent == 40

\* Constraint.preSolveAll(bodies)
preSolveAll(bs, bodies) ==
    Array([i \in DOMAIN bs |->
        IF i \in Range(bodies) /\ ~bs[i].isStatic /\ bs[i].constraintImpulse # 0
        THEN [bs[i] EXCEPT !.position = @ + bs[i].constraintImpulse]
        ELSE bs[i]])

\* Constraint.solve(constraint, timeScale), timeScale being [num, den].
\* Neither end is skipped for being asleep.
solve(bs, k, timeScale) ==
    LET pointAWorld == IF k.bodyA # NoBody THEN bs[k.bodyA].position + k.pointA ELSE k.pointA
        pointBWorld == IF k.bodyB # NoBody THEN bs[k.bodyB].position + k.pointB ELSE k.pointB
        delta == pointAWorld - pointBWorld
        currentLength == Abs(delta)
        isRigid == k.stiffness.num >= k.stiffness.den \/ k.length = 0
        scaled == MulDiv(Sign(delta) * (currentLength - k.length),
                         k.stiffness.num, k.stiffness.den)
        force == IF isRigid THEN MulDiv(scaled, timeScale.num, timeScale.den)
                 ELSE MulDiv(MulDiv(scaled, timeScale.num, timeScale.den),
                             timeScale.num, timeScale.den)
        massTotal == (IF k.bodyA # NoBody THEN bs[k.bodyA].inverseMass ELSE 0)
                     + (IF k.bodyB # NoBody THEN bs[k.bodyB].inverseMass ELSE 0)
        s1 == IF k.bodyA # NoBody /\ ~bs[k.bodyA].isStatic
              THEN LET moved == MulDiv(force, bs[k.bodyA].inverseMass, massTotal)
                   IN [bs EXCEPT ![k.bodyA].constraintImpulse = @ - moved,
                                 ![k.bodyA].position = @ - moved]
              ELSE bs
    IN IF k.bodyA = NoBody /\ k.bodyB = NoBody THEN bs
       ELSE IF k.bodyB # NoBody /\ ~s1[k.bodyB].isStatic
       THEN LET moved == MulDiv(force, s1[k.bodyB].inverseMass, massTotal)
            IN [s1 EXCEPT ![k.bodyB].constraintImpulse = @ + moved,
                          ![k.bodyB].position = @ + moved]
       ELSE s1

\* The second loop of Constraint.solveAll run over the constraints with a
\* fixed end, as the first loop is
RECURSIVE solveAllPassFixedAgain(_, _, _, _, _, _)
solveAllPassFixedAgain(run, ks, constraints, i, timeScale, fixed) ==
    IF i > Len(constraints) THEN run
    ELSE LET k == ks[constraints[i]]
             fixedA == k.bodyA = NoBody \/ run.bs[k.bodyA].isStatic
             fixedB == k.bodyB = NoBody \/ run.bs[k.bodyB].isStatic
         IN Then(IF fixedA \/ fixedB
                 THEN [bs |-> solve(run.bs, k, timeScale), solved |-> Append(run.solved, i)]
                 ELSE run,
                 LAMBDA r : solveAllPassFixedAgain(r, ks, constraints, i + 1, timeScale, fixed))

\* One of the two loops of Constraint.solveAll: the constraints with a fixed
\* end when `fixed`, the free ones otherwise. run.bs is the bodies and
\* run.solved the indices i of the calls solve(constraints[i], timeScale)
\* made so far, in order.
RECURSIVE solveAllPass(_, _, _, _, _, _)
solveAllPass(run, ks, constraints, i, timeScale, fixed) ==
    IF i > Len(constraints) THEN run
    ELSE LET k == ks[constraints[i]]
             fixedA == k.bodyA = NoBody \/ run.bs[k.bodyA].isStatic
             fixedB == k.bodyB = NoBody \/ run.bs[k.bodyB].isStatic
         IN Then(IF (fixedA \/ fixedB) = fixed
                 THEN [bs |-> solve(run.bs, k, timeScale), solved |-> Append(run.solved, i)]
                 ELSE run,
                 LAMBDA r : solveAllPass(r, ks, constraints, i + 1, timeScale, fixed))

\* Constraint.solveAll(constraints, delta): the bodies afterwards and the
\* calls of solve it made
solveAllRun(bs, ks, constraints, delta) ==
    LET timeScale == [num |-> clamp(delta, 0, baseDelta), den |-> baseDelta]
    IN Then(solveAllPass([bs |-> bs, solved |-> <<>>], ks, constraints, 1, timeScale, TRUE),
            LAMBDA r : solveAllPass(r, ks, constraints, 1, timeScale, FALSE))

\* Constraint.solveAll(constraints, delta)
solveAll(bs, ks, constraints, delta) == solveAllRun(bs, ks, constraints, delta).bs

\* postSolveAll waking every body that is not static, whatever its impulse
RECURSIVE postSolveAll(_, _, _, _)
postSolveAllWaking(bs, arr, bodies, i) ==
    Array([b \in DOMAIN bs |->
              IF b \in Range(bodies) /\ ~bs[b].isStatic THEN sleepingSet(bs[b], FALSE)
              ELSE bs[b]])

\* Constraint.postSolveAll(bodies)
postSolveAll(bs, arr, bodies, i) ==
    IF i > Len(bodies) THEN bs
    ELSE LET b == bodies[i]
             impulse == bs[b].constraintImpulse
         IN IF bs[b].isStatic \/ impulse = 0 THEN postSolveAll(bs, arr, bodies, i + 1)
            ELSE LET s1 == [bs EXCEPT ![b] = sleepingSet(@, FALSE)]
                     s2 == partsTranslate(s1, arr, b, impulse, s1[b].velocity, 1)
                     s3 == [s2 EXCEPT ![b].constraintImpulse =
                                          MulDiv(@, warmingPercent, 100)]
                 IN Then(s3, LAMBDA s : postSolveAll(s, arr, bodies, i + 1))

(***************************************************************************)
(* Collision (src/src/Collision.ts), Pair (src/src/Pair.ts), Pairs         *)
(* (src/src/collision/Query.ts) and Detector (src/unnamed/part_007).       *)
(* A body has one axis, the x axis; every body spans the same range of y   *)
(* and more of it than of x, so the axis of least overlap is the x axis    *)
(* and both corners of the touching face are supports.  A pair is known by *)
(* its id, the two body ids in increasing order; the collision record of a *)
(* pair is held in the pair.                                               *)
(***************************************************************************)
\* Pair.id(bodyA, bodyB)
pairId(bs, a, b) ==
    IF bs[a].id < bs[b].id THEN <<bs[a].id, bs[b].id>> ELSE <<bs[b].id, bs[a].id>>

\* canCollide by categories and masks alone
canCollideByMask(filterA, filterB) ==
    /\ (filterA.mask \cap filterB.category) # {}
    /\ (filterB.mask \cap filterA.category) # {}

\* Detector.canCollide(filterA, filterB)
canCollide(filterA, filterB) ==
    IF filterA.group = filterB.group /\ filterA.group # 0
    THEN filterA.group > 0
    ELSE /\ (filterA.mask \cap filterB.category) # {}
         /\ (filterB.mask \cap filterA.category) # {}

\* Bounds.overlaps(boundsA, boundsB)
overlaps(boundsA, boundsB) ==
    boundsA.min <= boundsB.max /\ boundsA.max >= boundsB.min

\* Collision._overlapAxes on the one axis
overlapAxes(verticesA, verticesB) ==
    Min(verticesA.max - verticesB.min, verticesB.max - verticesA.min)

\* Collision.collides(bodyA, bodyB, pairs): no record when the overlap is
\* not positive; else the record of the pair in pairs.table when there is
\* one, a new record with the body of the lower id as bodyA otherwise.
collides(bs, table, a, b) ==
    LET overlap == overlapAxes(bs[a].vertices, bs[b].vertices)
        id == pairId(bs, a, b)
        reused == id \in DOMAIN table
        bodyA == IF reused THEN table[id].collision.bodyA
                 ELSE IF bs[a].id < bs[b].id THEN a ELSE b
        bodyB == IF reused THEN table[id].collision.bodyB
                 ELSE IF bs[a].id < bs[b].id THEN b ELSE a
        delta == bs[bodyB].position - bs[bodyA].position
    IN IF overlap <= 0 THEN <<>>
       ELSE <<[pair |-> reused,
               id |-> id,
               bodyA |-> bodyA,
               bodyB |-> bodyB,
               parentA |-> IF reused THEN table[id].collision.parentA ELSE bs[bodyA].parent,
               parentB |-> IF reused THEN table[id].collision.parentB ELSE bs[bodyB].parent,
               depth |-> overlap,
               normal |-> IF delta >= 0 THEN -1 ELSE 1,
               supportCount |-> 2]>>

\* bodies.sort(_compareBoundsX): a stable sort by bounds.min
RECURSIVE sortByBoundsX(_, _)
Insert(bs, sorted, b) ==
    LET after == {i \in 1..Len(sorted) : bs[sorted[i]].bounds.min > bs[b].bounds.min}
        at == IF after = {} THEN Len(sorted) + 1
              ELSE CHOOSE i \in after : \A j \in after : i <= j
    IN SubSeq(sorted, 1, at - 1) \o <<b>> \o SubSeq(sorted, at, Len(sorted))
sortByBoundsX(bs, bodies) ==
    IF bodies = <<>> THEN <<>>
    ELSE Insert(bs, sortByBoundsX(bs, SubSeq(bodies, 1, Len(bodies) - 1)), bodies[Len(bodies)])

\* The two loops over the parts of bodyA and bodyB in Detector.collisions
RECURSIVE partsCollisions(_, _, _, _, _, _, _, _)
partsCollisions(bs, table, partsA, partsB, k, z, startB, found) ==
    IF k > Len(partsA) THEN found
    ELSE IF z > Len(partsB)
    THEN partsCollisions(bs, table, partsA, partsB, k + 1, startB, startB, found)
    ELSE LET partA == partsA[k]
             partB == partsB[z]
         IN Then(IF overlaps(bs[partA].bounds, bs[partB].bounds)
                 THEN found \o collides(bs, table, partA, partB)
                 ELSE found,
                 LAMBDA f : partsCollisions(bs, table, partsA, partsB, k, z + 1, startB, f))

\* The first test alone: both bodies at rest
skipsAtRest(bodyA, bodyB) ==
    (bodyA.isStatic \/ bodyA.isSleeping) /\ (bodyB.isStatic \/ bodyB.isSleeping)

\* The two `continue` tests of Detector.collisions on a pair of bodies whose
\* bounds overlap along x: both at rest, or the filters forbid the collision
skips(bodyA, bodyB) ==
    \/ (bodyA.isStatic \/ bodyA.isSleeping) /\ (bodyB.isStatic \/ bodyB.isSleeping)
    \/ ~canCollide(bodyA.collisionFilter, bodyB.collisionFilter)

\* The inner loop of Detector.collisions: bodyA against the bodies after it
RECURSIVE sweep(_, _, _, _, _, _, _)
sweep(bs, arr, table, bodies, i, j, found) ==
    IF j > Len(bodies) THEN found
    ELSE LET bodyA == bs[bodies[i]]
             bodyB == bs[bodies[j]]
             partsA == arr[bodyA.parts]
             partsB == arr[bodyB.parts]
         IN IF bodyB.bounds.min > bodyA.bounds.max THEN found
            ELSE IF skips(bodyA, bodyB)
            THEN sweep(bs, arr, table, bodies, i, j + 1, found)
            ELSE IF Len(partsA) = 1 /\ Len(partsB) = 1
            THEN Then(found \o collides(bs, table, bodies[i], bodies[j]),
                      LAMBDA f : sweep(bs, arr, table, bodies, i, j + 1, f))
            ELSE LET startA == IF Len(partsA) > 1 THEN 2 ELSE 1
                     startB == IF Len(partsB) > 1 THEN 2 ELSE 1
                 IN Then(partsCollisions(bs, table, partsA, partsB, startA, startB, startB,
                                         found),
                         LAMBDA f : sweep(bs, arr, table, bodies, i, j + 1, f))

\* Detector.collisions(detector), on the sorted body list
RECURSIVE detectorCollisions(_, _, _, _, _, _)
detectorCollisions(bs, arr, table, bodies, i, found) ==
    IF i > Len(bodies) THEN found
    ELSE Then(sweep(bs, arr, table, bodies, i, i + 1, found),
              LAMBDA f : detectorCollisions(bs, arr, table, bodies, i + 1, f))

\* Query.collides(body, bodies): bounds, then Collision.collides without a
\* pairs table; the collision filters are not looked at.
RECURSIVE queryCollides(_, _, _, _, _, _)
RECURSIVE queryParts(_, _, _, _, _)
queryParts(bs, b, parts, j, empty) ==
    IF j > Len(parts) THEN <<>>
    ELSE LET hit == IF overlaps(bs[parts[j]].bounds, bs[b].bounds)
                    THEN collides(bs, empty, parts[j], b)
                    ELSE <<>>
         IN IF hit # <<>> THEN hit ELSE queryParts(bs, b, parts, j + 1, empty)
queryCollides(bs, arr, b, bodies, i, found) ==
    IF i > Len(bodies) THEN found
    ELSE LET bodyA == bs[bodies[i]]
             parts == arr[bodyA.parts]
             start == IF Len(parts) = 1 THEN 1 ELSE 2
         IN queryCollides(bs, arr, b, bodies, i + 1,
                IF overlaps(bodyA.bounds, bs[b].bounds)
                THEN found \o queryParts(bs, b, parts, start, <<>>)
                ELSE found)

\* Pair.update(pair, collision, timestamp).  The two contacts of a pair
\* always hold the same impulse here, so exchanging them changes nothing.
pairUpdate(bs, pair, collision, timestamp) ==
    LET parentA == bs[collision.parentA]
        parentB == bs[collision.parentB]
    IN [pair EXCEPT !.isActive = TRUE,
                    !.timeUpdated = timestamp,
                    !.collision = [collision EXCEPT !.pair = TRUE],
                    !.separation = collision.depth,
                    !.inverseMass = parentA.inverseMass + parentB.inverseMass,
                    !.restitution = Max(parentA.restitution, parentB.restitution),
                    !.slop = Max(parentA.slop, parentB.slop),
                    !.contactCount = collision.supportCount]

\* Pair.create(collision, timestamp)
pairCreate(bs, collision, timestamp) ==
    pairUpdate(bs,
               [id |-> pairId(bs, collision.bodyA, collision.bodyB),
                bodyA |-> collision.bodyA,
                bodyB |-> collision.bodyB,
                collision |-> collision,
                contacts |-> <<[normalImpulse |-> 0], [normalImpulse |-> 0]>>,
                contactCount |-> 0,
                separation |-> 0,
                isActive |-> TRUE,
                isSensor |-> bs[collision.bodyA].isSensor \/ bs[collision.bodyB].isSensor,
                timeCreated |-> timestamp,
                timeUpdated |-> timestamp,
                inverseMass |-> 0,
                restitution |-> 0,
                slop |-> 0],
               collision, timestamp)

\* Pair.setActive(pair, isActive, timestamp)
pairSetActive(pair, isActive, timestamp) ==
    IF isActive THEN [pair EXCEPT !.isActive = TRUE, !.timeUpdated = timestamp]
    ELSE [pair EXCEPT !.isActive = FALSE, !.contactCount = 0]

\* Pairs.create()
pairsCreate ==
    [table |-> <<>>, list |-> <<>>,
     collisionStart |-> <<>>, collisionActive |-> <<>>, collisionEnd |-> <<>>]

RECURSIVE pairsUpdateCollisions(_, _, _, _, _)
\* The first loop reporting in collisionStart every collision, that of a
\* pair it already has too
pairsUpdateCollisionsRestart(bs, pairs, collisions, i, timestamp) ==
    IF i > Len(collisions) THEN pairs
    ELSE LET collision == collisions[i]
             id == collision.id
             pair == IF collision.pair
                     THEN pairUpdate(bs, pairs.table[id], collision, timestamp)
                     ELSE pairCreate(bs, collision, timestamp)
         IN Then([pairs EXCEPT !.table = (id :> pair) @@ @,
                               !.collisionStart = Append(@, id),
                               !.list = IF collision.pair THEN @ ELSE Append(@, id)],
                 LAMBDA p : pairsUpdateCollisions(bs, p, collisions, i + 1, timestamp))

\* The first loop of Pairs.update: a collision that carries its pair
\* updates it, any other creates a pair.
pairsUpdateCollisions(bs, pairs, collisions, i, timestamp) ==
    IF i > Len(collisions) THEN pairs
    ELSE LET collision == collisions[i]
             id == collision.id
         IN IF collision.pair
            THEN LET pair == pairs.table[id]
                 IN Then([pairs EXCEPT !.collisionActive =
                                           IF pair.isActive THEN Append(@, id) ELSE @,
                                       !.table[id] = pairUpdate(bs, pair, collision, timestamp)],
                         LAMBDA p : pairsUpdateCollisions(bs, p, collisions, i + 1, timestamp))
            ELSE LET pair == pairCreate(bs, collision, timestamp)
                 IN Then([pairs EXCEPT !.table = (pair.id :> pair) @@ @,
                                       !.collisionStart = Append(@, pair.id),
                                       !.list = Append(@, pair.id)],
                         LAMBDA p : pairsUpdateCollisions(bs, p, collisions, i + 1, timestamp))

\* The second loop of Pairs.update: the pairs not updated in this step are
\* made inactive, and removed unless both bodies have a sleep counter.
RECURSIVE pairsUpdateList(_, _, _, _, _)
pairsUpdateList(bs, pairs, list, i, timestamp) ==
    IF i > Len(list) THEN pairs
    ELSE LET id == list[i]
             pair == pairs.table[id]
         IN IF pair.timeUpdated >= timestamp
            THEN Then([pairs EXCEPT !.list = Append(@, id)],
                      LAMBDA p : pairsUpdateList(bs, p, list, i + 1, timestamp))
            ELSE IF bs[pair.collision.bodyA].sleepCounter > 0
                    /\ bs[pair.collision.bodyB].sleepCounter > 0
            THEN Then([pairs EXCEPT !.table[id] = pairSetActive(pair, FALSE, timestamp),
                                    !.list = Append(@, id)],
                      LAMBDA p : pairsUpdateList(bs, p, list, i + 1, timestamp))
            ELSE Then([pairs EXCEPT !.table = [x \in DOMAIN @ \ {id} |-> @[x]],
                                    !.collisionEnd = Append(@, id)],
                      LAMBDA p : pairsUpdateList(bs, p, list, i + 1, timestamp))

\* Pairs.update(pairs, collisions, timestamp)
pairsUpdate(bs, pairs, collisions, timestamp) ==
    LET p0 == [pairs EXCEPT !.collisionStart = <<>>, !.collisionActive = <<>>,
                            !.collisionEnd = <<>>]
    IN Then(pairsUpdateCollisions(bs, p0, collisions, 1, timestamp),
            LAMBDA p1 : pairsUpdateList(bs, [p1 EXCEPT !.list = <<>>], p1.list, 1, timestamp))

\* Sleeping.afterCollisions(pairs)
RECURSIVE afterCollisions(_, _, _, _)
afterCollisions(bs, table, list, i) ==
    IF i > Len(list) THEN bs
    ELSE LET pair == table[list[i]]
             bodyA == bs[pair.collision.bodyA].parent
             bodyB == bs[pair.collision.bodyB].parent
             sleepingBody == IF bs[bodyA].isSleeping /\ ~bs[bodyA].isStatic
                             THEN bodyA ELSE bodyB
             movingBody == IF sleepingBody = bodyA THEN bodyB ELSE bodyA
         IN IF \/ ~pair.isActive
               \/ (bs[bodyA].isSleeping /\ bs[bodyB].isSleeping)
               \/ bs[bodyA].isStatic
               \/ bs[bodyB].isStatic
            THEN afterCollisions(bs, table, list, i + 1)
            ELSE IF /\ bs[bodyA].isSleeping \/ bs[bodyB].isSleeping
                    /\ ~bs[sleepingBody].isStatic
                    /\ bs[movingBody].motion > motionSleepThreshold
            THEN Then([bs EXCEPT ![sleepingBody] = sleepingSet(@, FALSE)],
                      LAMBDA s : afterCollisions(s, table, list, i + 1))
            ELSE afterCollisions(bs, table, list, i + 1)

(***************************************************************************)
(* Resolver (src/src/Resolver.ts).  st is [bs, table]: the bodies and the  *)
(* pairs by id; list is pairs.list.  There is no tangent along the one     *)
(* axis, so the tangent impulses are zero and left out, as are the angles. *)
(***************************************************************************)
\* _restingThresh = 2, in pixels
restingThresh == 2
\* _positionDampen = 0.9, in hundredths
positionDampenPercent == 90
\* _positionWarming = 0.8, in hundredths
positionWarmingPercent == 80

\* `!pair.isActive || pair.isSensor`
Skipped(pair) == ~pair.isActive \/ pair.isSensor

\* Resolver.preSolvePosition(pairs)
RECURSIVE preSolvePosition(_, _, _, _)
preSolvePosition(bs, table, list, i) ==
    IF i > Len(list) THEN bs
    ELSE LET pair == table[list[i]]
             s1 == [bs EXCEPT ![pair.collision.parentA].totalContacts = @ + pair.contactCount]
             s2 == [s1 EXCEPT ![pair.collision.parentB].totalContacts = @ + pair.contactCount]
         IN Then(IF pair.isActive THEN s2 ELSE bs,
                 LAMBDA s : preSolvePosition(s, table, list, i + 1))

\* The first loop of Resolver.solvePosition
RECURSIVE solvePositionSeparation(_, _, _, _)
solvePositionSeparation(bs, table, list, i) ==
    IF i > Len(list) THEN table
    ELSE LET pair == table[list[i]]
             collision == pair.collision
             separation == collision.depth
                           + collision.normal * (bs[collision.parentB].positionImpulse
                                                 - bs[collision.parentA].positionImpulse)
         IN Then(IF Skipped(pair) THEN table
                 ELSE [table EXCEPT ![list[i]].separation = separation],
                 LAMBDA t : solvePositionSeparation(bs, t, list, i + 1))

\* The second loop of Resolver.solvePosition; positionDampen and slopDampen
\* are [num, den].
RECURSIVE solvePositionImpulse(_, _, _, _, _, _)
solvePositionImpulse(bs, table, list, i, positionDampen, slopDampen) ==
    IF i > Len(list) THEN bs
    ELSE LET pair == table[list[i]]
             collision == pair.collision
             bodyA == collision.parentA
             bodyB == collision.parentB
             normal == collision.normal
             impulse == pair.separation - MulDiv(pair.slop, slopDampen.num, slopDampen.den)
             positionImpulse == IF bs[bodyA].isStatic \/ bs[bodyB].isStatic
                                THEN impulse * 2 ELSE impulse
             s1 == IF ~(bs[bodyA].isStatic \/ bs[bodyA].isSleeping)
                   THEN [bs EXCEPT ![bodyA].positionImpulse =
                            @ + MulDiv(normal * positionImpulse, positionDampen.num,
                                       positionDampen.den * bs[bodyA].totalContacts)]
                   ELSE bs
             s2 == IF ~(s1[bodyB].isStatic \/ s1[bodyB].isSleeping)
                   THEN [s1 EXCEPT ![bodyB].positionImpulse =
                            @ - MulDiv(normal * positionImpulse, positionDampen.num,
                                       positionDampen.den * s1[bodyB].totalContacts)]
                   ELSE s1
         IN Then(IF Skipped(pair) THEN bs ELSE s2,
                 LAMBDA s : solvePositionImpulse(s, table, list, i + 1, positionDampen,
                                                 slopDampen))

\* Resolver.solvePosition(pairs, delta, damping), damping being [num, den]
solvePosition(st, list, delta, damping) ==
    LET positionDampen == IF damping.num = 0
                          THEN [num |-> positionDampenPercent, den |-> 100]
                          ELSE [num |-> positionDampenPercent * damping.num,
                                den |-> 100 * damping.den]
        slopDampen == [num |-> clamp(delta, 0, baseDelta), den |-> baseDelta]
    IN Then(solvePositionSeparation(st.bs, st.table, list, 1),
            LAMBDA table :
                [bs |-> solvePositionImpulse(st.bs, table, list, 1, positionDampen,
                                             slopDampen),
                 table |-> table])

\* Resolver.postSolvePosition(bodies): no body is skipped for being static
RECURSIVE postSolvePosition(_, _, _, _)
postSolvePosition(bs, arr, bodies, i) ==
    IF i > Len(bodies) THEN bs
    ELSE LET b == bodies[i]
             positionImpulse == bs[b].positionImpulse
             velocity == bs[b].velocity
             s1 == [bs EXCEPT ![b].totalContacts = 0]
             s2 == partsTranslate(s1, arr, b, positionImpulse, velocity, 0)
             s3 == [s2 EXCEPT ![b].positionPrev = @ + positionImpulse,
                              ![b].positionImpulse =
                                  IF positionImpulse * velocity < 0 THEN 0
                                  ELSE MulDiv(@, positionWarmingPercent, 100)]
         IN Then(IF positionImpulse # 0 THEN s3 ELSE s1,
                 LAMBDA s : postSolvePosition(s, arr, bodies, i + 1))

\* Resolver.preSolveVelocity(pairs): the loop over the contacts of one pair
RECURSIVE preSolveVelocityContacts(_, _, _)
preSolveVelocityContacts(bs, pair, j) ==
    IF j > pair.contactCount THEN bs
    ELSE LET bodyA == pair.collision.parentA
             bodyB == pair.collision.parentB
             impulse == pair.collision.normal * pair.contacts[j].normalImpulse
             s1 == IF ~(bs[bodyA].isStatic \/ bs[bodyA].isSleeping)
                   THEN [bs EXCEPT ![bodyA].positionPrev = @ + impulse * bs[bodyA].inverseMass]
                   ELSE bs
             s2 == IF ~(s1[bodyB].isStatic \/ s1[bodyB].isSleeping)
                   THEN [s1 EXCEPT ![bodyB].positionPrev = @ - impulse * s1[bodyB].inverseMass]
                   ELSE s1
         IN Then(IF pair.contacts[j].normalImpulse # 0 THEN s2 ELSE bs,
                 LAMBDA s : preSolveVelocityContacts(s, pair, j + 1))

\* Resolver.preSolveVelocity(pairs)
RECURSIVE preSolveVelocity(_, _, _, _)
preSolveVelocity(bs, table, list, i) ==
    IF i > Len(list) THEN bs
    ELSE LET pair == table[list[i]]
         IN Then(IF Skipped(pair) THEN bs ELSE preSolveVelocityContacts(bs, pair, 1),
                 LAMBDA s : preSolveVelocity(s, table, list, i + 1))

\* Resolver.solveVelocity(pairs, delta): the loop over the contacts of one
\* pair; normalVelocity is found from the velocities read before the loop.
RECURSIVE solveVelocityContacts(_, _, _, _, _)
solveVelocityContacts(st, id, j, normalVelocity, delta) ==
    LET pair == st.table[id]
        bodyA == pair.collision.parentA
        bodyB == pair.collision.parentB
        normal == pair.collision.normal
        raw == MulDiv((100 + pair.restitution) * normalVelocity, 1,
                      100 * pair.contactCount * pair.inverseMass)
        resting == normalVelocity * baseDelta >= -restingThresh * FP * delta
        contactNormalImpulse == pair.contacts[j].normalImpulse
        newImpulse == IF resting THEN Min(contactNormalImpulse + raw, 0) ELSE 0
        normalImpulse == IF resting THEN newImpulse - contactNormalImpulse ELSE raw
        impulse == normal * normalImpulse
        bs == st.bs
        s1 == IF ~(bs[bodyA].isStatic \/ bs[bodyA].isSleeping)
              THEN [bs EXCEPT ![bodyA].positionPrev = @ + impulse * bs[bodyA].inverseMass]
              ELSE bs
        s2 == IF ~(s1[bodyB].isStatic \/ s1[bodyB].isSleeping)
              THEN [s1 EXCEPT ![bodyB].positionPrev = @ - impulse * s1[bodyB].inverseMass]
              ELSE s1
    IN IF j > pair.contactCount THEN st
       ELSE Then([bs |-> s2,
                  table |-> [st.table EXCEPT ![id].contacts[j].normalImpulse = newImpulse]],
                 LAMBDA s : solveVelocityContacts(s, id, j + 1, normalVelocity, delta))

\* Resolver.solveVelocity(pairs, delta)
RECURSIVE solveVelocity(_, _, _, _)
solveVelocity(st, list, i, delta) ==
    IF i > Len(list) THEN st
    ELSE LET pair == st.table[list[i]]
             bodyA == st.bs[pair.collision.parentA]
             bodyB == st.bs[pair.collision.parentB]
             normalVelocity == pair.collision.normal
                               * ((bodyA.position - bodyA.positionPrev)
                                  - (bodyB.position - bodyB.positionPrev))
         IN Then(IF Skipped(pair) THEN st
                 ELSE solveVelocityContacts(st, list[i], 1, normalVelocity, delta),
                 LAMBDA s : solveVelocity(s, list, i + 1, delta))

(***************************************************************************)
(* Composite (src/src/Composite.ts)                                        *)
(***************************************************************************)
CompositeIds == 1..MaxComposites
NoParent == 0

\* cache.x = undefined is [valid |-> FALSE]; any array, the empty one
\* included, is truthy in the `composite.cache.allBodies` test.
Undefined == [valid |-> FALSE, list |-> <<>>]
Cached(list) == [valid |-> TRUE, list |-> list]

\* Composite.create({}), id being the value nextId() returned
create(id) ==
    [id |-> id,
     parent |-> NoParent,
     isModified |-> FALSE,
     bodies |-> <<>>,
     constraints |-> <<>>,
     composites |-> <<>>,
     cache |-> [allBodies |-> Undefined, allConstraints |-> Undefined, allComposites |-> Undefined]]

\* The composites reached from c through parent references, c included.
RECURSIVE ParentChain(_, _, _)
ParentChain(cs, c, seen) ==
    IF c = NoParent \/ c \in seen THEN seen
    ELSE ParentChain(cs, cs[c].parent, seen \cup {c})

\* The parent references starting at c run into a cycle: the recursion of
\* setModified with updateParents never returns and the call stack overflows.
RECURSIVE ParentCycle(_, _, _)
ParentCycle(cs, c, seen) ==
    IF c = NoParent THEN FALSE
    ELSE IF c \in seen THEN TRUE
    ELSE ParentCycle(cs, cs[c].parent, seen \cup {c})

\* One frame of setModified: the flag and, when set, the three caches.
setModifiedOne(cs, c, isModified) ==
    [cs EXCEPT ![c].isModified = isModified,
               ![c].cache = IF isModified
                            THEN [allBodies |-> Undefined, allConstraints |-> Undefined,
                                  allComposites |-> Undefined]
                            ELSE @]

\* setModified(composite, isModified, updateParents, updateChildren).
\* `seen` holds the composites already visited: a second visit writes the
\* same values again, so the state a cyclic recursion leaves is the state
\* after the first round.
RECURSIVE setModifiedFrom(_, _, _, _, _, _)
RECURSIVE setModifiedChildren(_, _, _, _, _, _, _)
setModifiedFrom(cs, c, isModified, updateParents, updateChildren, seen) ==
    IF c \in seen THEN cs
    ELSE LET s1 == setModifiedOne(cs, c, isModified)
             s2 == IF updateParents /\ s1[c].parent # NoParent
                   THEN setModifiedFrom(s1, s1[c].parent, isModified, updateParents,
                                        updateChildren, seen \cup {c})
                   ELSE s1
         IN IF updateChildren
            THEN setModifiedChildren(s2, c, 1, isModified, updateParents, updateChildren,
                                     seen \cup {c})
            ELSE s2
setModifiedChildren(cs, c, i, isModified, updateParents, updateChildren, seen) ==
    IF i > Len(cs[c].composites) THEN cs
    ELSE setModifiedChildren(
             setModifiedFrom(cs, cs[c].composites[i], isModified, updateParents,
                             updateChildren, seen),
             c, i + 1, isModified, updateParents, updateChildren, seen)

\* setModified without the recursion into composite.parent
setModifiedOwnOnly(cs, c, isModified, updateParents, updateChildren) ==
    setModifiedFrom(cs, c, isModified, FALSE, updateChildren, {})
setModified(cs, c, isModified, updateParents, updateChildren) ==
    setModifiedFrom(cs, c, isModified, updateParents, updateChildren, {})

\* The state the Composite functions work on: the composites, the bodies,
\* the exception raised so far and the composites whose lists were changed.
CompositeState(cs, bs) == [cs |-> cs, bs |-> bs, err |-> "none", touched |-> {}]

\* setModified(composite, true, true, false), the call every mutator ends
\* with.  On a cyclic parent chain the recursion overflows the call stack.
invalidate(st, c) ==
    [st EXCEPT !.cs = setModified(st.cs, c, TRUE, TRUE, FALSE),
               !.err = IF ParentCycle(st.cs, c, {}) THEN "RangeError" ELSE @,
               !.touched = @ \cup {c}]

\* allBodies(composite): the cache test, the loop over the children, which
\* assigns each child's result to `bodies`, and the cache store.
RECURSIVE allBodies(_, _)
RECURSIVE allBodiesLoop(_, _, _, _)
allBodies(cs, c) ==
    IF cs[c].cache.allBodies.valid
    THEN [val |-> cs[c].cache.allBodies.list, cs |-> cs]
    ELSE LET r == allBodiesLoop(cs, c, 1, cs[c].bodies)
         IN [val |-> r.val, cs |-> [r.cs EXCEPT ![c].cache.allBodies = Cached(r.val)]]
allBodiesLoop(cs, c, i, bodies) ==
    IF i > Len(cs[c].composites) THEN [val |-> bodies, cs |-> cs]
    ELSE LET r == allBodies(cs, cs[c].composites[i])
         IN allBodiesLoop(r.cs, c, i + 1, r.val)

\* allConstraints(composite)
RECURSIVE allConstraints(_, _)
RECURSIVE allConstraintsLoop(_, _, _, _)
allConstraints(cs, c) ==
    IF cs[c].cache.allConstraints.valid
    THEN [val |-> cs[c].cache.allConstraints.list, cs |-> cs]
    ELSE LET r == allConstraintsLoop(cs, c, 1, cs[c].constraints)
         IN [val |-> r.val, cs |-> [r.cs EXCEPT ![c].cache.allConstraints = Cached(r.val)]]
allConstraintsLoop(cs, c, i, constraints) ==
    IF i > Len(cs[c].composites) THEN [val |-> constraints, cs |-> cs]
    ELSE LET r == allConstraints(cs, cs[c].composites[i])
         IN allConstraintsLoop(r.cs, c, i + 1, constraints \o r.val)

\* allComposites(composite)
RECURSIVE allComposites(_, _)
RECURSIVE allCompositesLoop(_, _, _, _)
allComposites(cs, c) ==
    IF cs[c].cache.allComposites.valid
    THEN [val |-> cs[c].cache.allComposites.list, cs |-> cs]
    ELSE LET r == allCompositesLoop(cs, c, 1, cs[c].composites)
         IN [val |-> r.val, cs |-> [r.cs EXCEPT ![c].cache.allComposites = Cached(r.val)]]
allCompositesLoop(cs, c, i, composites) ==
    IF i > Len(cs[c].composites) THEN [val |-> composites, cs |-> cs]
    ELSE LET r == allComposites(cs, cs[c].composites[i])
         IN allCompositesLoop(r.cs, c, i + 1, composites \o r.val)

\* addComposite(compositeA, compositeB)
addComposite(st, a, b) ==
    invalidate([st EXCEPT !.cs[a].composites = Append(@, b), !.cs[b].parent = a], a)

\* removeCompositeAt(composite, position)
removeCompositeAt(st, c, position) ==
    invalidate([st EXCEPT !.cs[c].composites = RemoveAt(@, position)], c)

\* removeComposite(compositeA, compositeB, deep)
RECURSIVE removeComposite(_, _, _, _)
RECURSIVE removeCompositeDeep(_, _, _, _)
removeComposite(st, a, b, deep) ==
    LET position == IndexOf(st.cs[a].composites, b)
        r == allBodies(st.cs, b)
        s0 == removeCompositeAt([st EXCEPT !.cs = r.cs], a, position)
        s1 == IF position = 0 THEN st
              ELSE IF s0.err # "none" THEN s0
              ELSE [s0 EXCEPT !.bs = [i \in DOMAIN s0.bs |->
                                         IF i \in Range(r.val)
                                         THEN [s0.bs[i] EXCEPT !.sleepCounter = 0]
                                         ELSE s0.bs[i]]]
    IN IF deep /\ s1.err = "none" THEN removeCompositeDeep(s1, a, b, 1) ELSE s1
removeCompositeDeep(st, a, b, i) ==
    IF i > Len(st.cs[a].composites) \/ st.err # "none" THEN st
    ELSE removeCompositeDeep(removeComposite(st, st.cs[a].composites[i], b, TRUE), a, b, i + 1)

\* addBody(composite, body)
addBody(st, c, b) ==
    invalidate([st EXCEPT !.cs[c].bodies = Append(@, b)], c)

\* removeBodyAt(composite, position)
removeBodyAt(st, c, position) ==
    invalidate([st EXCEPT !.cs[c].bodies = RemoveAt(@, position)], c)

\* removeBody(composite, body, deep)
RECURSIVE removeBody(_, _, _, _)
RECURSIVE removeBodyDeep(_, _, _, _)
removeBody(st, c, b, deep) ==
    LET position == IndexOf(st.cs[c].bodies, b)
        s0 == removeBodyAt(st, c, position)
        s1 == IF position = 0 THEN st
              ELSE IF s0.err # "none" THEN s0
              ELSE [s0 EXCEPT !.bs[b].sleepCounter = 0]
    IN IF deep /\ s1.err = "none" THEN removeBodyDeep(s1, c, b, 1) ELSE s1
removeBodyDeep(st, c, b, i) ==
    IF i > Len(st.cs[c].composites) \/ st.err # "none" THEN st
    ELSE removeBodyDeep(removeBody(st, st.cs[c].composites[i], b, TRUE), c, b, i + 1)

\* addConstraint(composite, constraint)
addConstraint(st, c, k) ==
    invalidate([st EXCEPT !.cs[c].constraints = Append(@, k)], c)

\* removeConstraintAt(composite, position)
removeConstraintAt(st, c, position) ==
    invalidate([st EXCEPT !.cs[c].constraints = RemoveAt(@, position)], c)

\* removeConstraint(composite, constraint, deep)
RECURSIVE removeConstraint(_, _, _, _)
RECURSIVE removeConstraintDeep(_, _, _, _)
removeConstraint(st, c, k, deep) ==
    LET position == IndexOf(st.cs[c].constraints, k)
        s1 == IF position = 0 THEN st ELSE removeConstraintAt(st, c, position)
    IN IF deep /\ s1.err = "none" THEN removeConstraintDeep(s1, c, k, 1) ELSE s1
removeConstraintDeep(st, c, k, i) ==
    IF i > Len(st.cs[c].composites) \/ st.err # "none" THEN st
    ELSE removeConstraintDeep(removeConstraint(st, st.cs[c].composites[i], k, TRUE), c, k, i + 1)

\* A child object handed to add, remove or move: its type tag and the
\* body, constraint or composite it is.
Obj(type, ref) == [type |-> type, ref |-> ref]

\* Composite.add(composite, objects): the loop and its switch.  A body that
\* is not its own parent is a compound part and is skipped.  No listener is
\* registered on a composite, so the beforeAdd and afterAdd triggers do
\* nothing.  An exception ends the loop.
RECURSIVE add(_, _, _, _)
\* add without the test that skips compound parts
addParts(st, c, objects, i) ==
    IF i > Len(objects) \/ st.err # "none" THEN st
    ELSE LET obj == objects[i]
             s1 == CASE obj.type = "body" -> addBody(st, c, obj.ref)
                    [] obj.type = "constraint" -> addConstraint(st, c, obj.ref)
                    [] obj.type = "composite" -> addComposite(st, c, obj.ref)
         IN add(s1, c, objects, i + 1)
add(st, c, objects, i) ==
    IF i > Len(objects) \/ st.err # "none" THEN st
    ELSE LET obj == objects[i]
             s1 == CASE obj.type = "body" ->
                          IF st.bs[obj.ref].parent # obj.ref THEN st
                          ELSE addBody(st, c, obj.ref)
                    [] obj.type = "constraint" -> addConstraint(st, c, obj.ref)
                    [] obj.type = "composite" -> addComposite(st, c, obj.ref)
         IN add(s1, c, objects, i + 1)

\* Composite.remove(composite, objects, deep)
RECURSIVE remove(_, _, _, _, _)
remove(st, c, objects, deep, i) ==
    IF i > Len(objects) \/ st.err # "none" THEN st
    ELSE LET obj == objects[i]
             s1 == CASE obj.type = "body" -> removeBody(st, c, obj.ref, deep)
                    [] obj.type = "constraint" -> removeConstraint(st, c, obj.ref, deep)
                    [] obj.type = "composite" -> removeComposite(st, c, obj.ref, deep)
         IN remove(s1, c, objects, deep, i + 1)

\* Composite.clear(composite, keepStatic, deep)
RECURSIVE clear(_, _, _, _)
RECURSIVE clearDeep(_, _, _, _)
clear(st, c, keepStatic, deep) ==
    LET s1 == IF deep THEN clearDeep(st, c, keepStatic, 1) ELSE st
        IsStatic(b) == s1.bs[b].isStatic
    IN IF s1.err # "none" THEN s1
       ELSE invalidate([s1 EXCEPT !.cs[c].bodies = IF keepStatic THEN SelectSeq(@, IsStatic)
                                                   ELSE <<>>,
                                  !.cs[c].constraints = <<>>,
                                  !.cs[c].composites = <<>>], c)
clearDeep(st, c, keepStatic, i) ==
    IF i > Len(st.cs[c].composites) \/ st.err # "none" THEN st
    ELSE clearDeep(clear(st, st.cs[c].composites[i], keepStatic, TRUE), c, keepStatic, i + 1)

\* Composite.move(compositeA, objects, compositeB)
move(st, a, objects, b) ==
    add(remove(st, a, objects, FALSE, 1), b, objects, 1)

(***************************************************************************)
(* The flattening of a composite's subtree, as a definition of its own:    *)
(* the objects of the composite followed by those of each child's subtree, *)
(* depth-first.  `field` is "bodies", "constraints" or "composites".       *)
(***************************************************************************)
RECURSIVE Flatten(_, _, _)
RECURSIVE FlattenChildren(_, _, _, _)
Flatten(cs, c, field) == cs[c][field] \o FlattenChildren(cs, c, field, 1)
FlattenChildren(cs, c, field, i) ==
    IF i > Len(cs[c].composites) THEN <<>>
    ELSE Flatten(cs, cs[c].composites[i], field) \o FlattenChildren(cs, c, field, i + 1)

\* The composites of the subtree under c, c excluded.
Descendants(cs, c) == Range(Flatten(cs, c, "composites"))

\* The composites that hold c in their subtree.
Containers(cs, c) == {a \in DOMAIN cs : c \in Descendants(cs, a)}

\* The object is held by some composite.
Held(cs, obj) ==
    \E c \in DOMAIN cs :
        obj.ref \in Range(cs[c][CASE obj.type = "body" -> "bodies"
                                   [] obj.type = "constraint" -> "constraints"
                                   [] obj.type = "composite" -> "composites"])

(***************************************************************************)
(* Engine (src/unnamed/part_013).  The world is composite 1.  A listener   *)
(* that records the name of the event it is called with is registered for  *)
(* every name in engine.events, once; engine.eventForces are the further   *)
(* listeners, each of which applies a force to a body when its event       *)
(* fires.  gravity.x stands for the product gravity.x * gravity.scale, in  *)
(* the unit of a force.                                                    *)
(***************************************************************************)
world == 1

EventNames ==
    <<"beforeUpdate", "beforeSolve", "collisionStart", "collisionActive", "collisionEnd",
      "afterUpdate">>

\* Engine.create(options) with options enableSleeping and gravity, after
\* Events.on(engine, name, listener) for each of the names in `events`
engineCreate(enableSleeping, gravityX, events) ==
    [positionIterations |-> 6,
     velocityIterations |-> 4,
     constraintIterations |-> 2,
     enableSleeping |-> enableSleeping,
     events |-> events,
     eventForces |-> <<>>,
     gravity |-> [x |-> gravityX],
     timing |-> [timestamp |-> 0, timeScale |-> 1, lastDelta |-> 0,
                 lastUpdatesPerFrame |-> 0],
     world |-> world,
     pairs |-> pairsCreate,
     detector |-> [bodies |-> <<>>]]

\* trigger calling each listener twice
triggerTwice(object, fired, eventName) ==
    IF object.events # {} /\ eventName \in object.events
    THEN fired \o <<eventName, eventName>>
    ELSE fired

\* Events.trigger(engine, eventName, event): the listeners registered for
\* the name are called, each once; fired is the record the listener keeps.
trigger(object, fired, eventName) ==
    IF object.events # {} /\ eventName \in object.events
    THEN Append(fired, eventName)
    ELSE fired

\* Engine._bodiesApplyGravity(bodies, gravity)
bodiesApplyGravity(bs, bodies, gravity) ==
    IF gravity.x = 0 THEN bs
    ELSE Array([i \in DOMAIN bs |->
             IF i \in Range(bodies) /\ ~(bs[i].isStatic \/ bs[i].isSleeping)
             THEN [bs[i] EXCEPT !.force = @ + bs[i].mass * gravity.x]
             ELSE bs[i]])

\* Engine._bodiesUpdate(bodies, delta)
RECURSIVE bodiesUpdate(_, _, _, _, _)
bodiesUpdate(bs, arr, bodies, i, delta) ==
    IF i > Len(bodies) THEN bs
    ELSE Then(IF bs[bodies[i]].isStatic \/ bs[bodies[i]].isSleeping THEN bs
              ELSE bodyUpdate(bs, arr, bodies[i], delta),
              LAMBDA s : bodiesUpdate(s, arr, bodies, i + 1, delta))

\* Engine._bodiesUpdateVelocities(bodies)
bodiesUpdateVelocities(bs, bodies) ==
    Array([i \in DOMAIN bs |-> IF i \in Range(bodies) THEN updateVelocities(bs[i]) ELSE bs[i]])

\* Engine._bodiesClearForces(bodies)
bodiesClearForces(bs, bodies) ==
    Array([i \in DOMAIN bs |-> IF i \in Range(bodies) THEN [bs[i] EXCEPT !.force = 0] ELSE bs[i]])

\* for (i < engine.constraintIterations) solveAll(allConstraints, delta)
RECURSIVE solveAllTimes(_, _, _, _, _)
solveAllTimes(bs, ks, constraints, delta, n) ==
    IF n = 0 THEN bs
    ELSE Then(solveAll(bs, ks, constraints, delta),
              LAMBDA s : solveAllTimes(s, ks, constraints, delta, n - 1))

\* preSolveAll, the solveAll iterations and postSolveAll: the lines that
\* Engine.update has twice, as the first and the second constraint pass
constraintPass(bs, arr, ks, bodies, constraints, delta, n) ==
    Then(preSolveAll(bs, bodies),
         LAMBDA s1 : Then(solveAllTimes(s1, ks, constraints, delta, n),
                          LAMBDA s2 : postSolveAll(s2, arr, bodies, 1)))

\* for (i < engine.positionIterations) solvePosition(pairs.list, delta, damping)
RECURSIVE solvePositionTimes(_, _, _, _, _)
solvePositionTimes(st, list, delta, damping, n) ==
    IF n = 0 THEN st
    ELSE Then(solvePosition(st, list, delta, damping),
              LAMBDA s : solvePositionTimes(s, list, delta, damping, n - 1))

\* for (i < engine.velocityIterations) solveVelocity(pairs.list, delta)
RECURSIVE solveVelocityTimes(_, _, _, _)
solveVelocityTimes(st, list, delta, n) ==
    IF n = 0 THEN st
    ELSE Then(solveVelocity(st, list, 1, delta),
              LAMBDA s : solveVelocityTimes(s, list, delta, n - 1))

\* Engine.update(engine, delta) is the composition of its steps, each a
\* function of the running state u: the composites cs, the bodies bs, the
\* parts arrays arr, the constraints ks and the engine, with the locals
\* delta, timestamp, allBodies (bodies), allConstraints (constraints) and
\* collisions and, for the claims, the events in the order they fired,
\* whether the world was modified and the list the detector was given.
updateStart(st, deltaArgument) ==
    LET delta == deltaArgument * st.engine.timing.timeScale
    IN
    [cs |-> st.cs, bs |-> st.bs, arr |-> st.arr, ks |-> st.ks,
     engine |-> [st.engine EXCEPT !.timing.timestamp = @ + delta,
                                  !.timing.lastDelta = delta],
     delta |-> delta,
     timestamp |-> st.engine.timing.timestamp,
     fired |-> <<>>,
     bodies |-> <<>>,
     constraints |-> <<>>,
     collisions |-> <<>>,
     isModified |-> FALSE,
     detectorBodies |-> st.engine.detector.bodies,
     forced |-> {}]

\* The callbacks of engine.eventForces subscribed to eventName, called in
\* the order they were subscribed: each applies its force to its body.
\* u.forced keeps the bodies that were asleep when a callback applied a
\* force to them.
RECURSIVE triggerForces(_, _, _)
triggerForces(u, eventName, i) ==
    IF i > Len(u.engine.eventForces) THEN u
    ELSE LET callback == u.engine.eventForces[i]
         IN IF callback.name # eventName THEN triggerForces(u, eventName, i + 1)
            ELSE triggerForces(
                     [u EXCEPT !.bs[callback.body] = applyForce(@, callback.force),
                               !.forced = IF u.bs[callback.body].isSleeping
                                          THEN @ \cup {callback.body} ELSE @],
                     eventName, i + 1)

\* trigger(engine, eventName, event)
updateTrigger(u, eventName) ==
    LET fired == trigger(u.engine, u.fired, eventName)
    IN IF fired = u.fired THEN u
       ELSE triggerForces([u EXCEPT !.fired = fired], eventName, 1)

\* const allBodies = compositeAllBodies(world)
updateAllBodies(u) ==
    LET r == allBodies(u.cs, u.engine.world)
    IN  [u EXCEPT !.cs = r.cs, !.bodies = r.val]

\* const allConstraints = compositeAllConstraints(world)
updateAllConstraints(u) ==
    LET r == allConstraints(u.cs, u.engine.world)
    IN  [u EXCEPT !.cs = r.cs, !.constraints = r.val]

\* if (world.isModified) { detectorSetBodies; compositeSetModified }
updateModified(u) ==
    IF u.cs[u.engine.world].isModified
    THEN [u EXCEPT !.isModified = TRUE,
                   !.detectorBodies = u.bodies,
                   !.engine.detector.bodies = u.bodies,
                   !.cs = setModified(@, u.engine.world, FALSE, FALSE, TRUE)]
    ELSE u

\* if (engine.enableSleeping) sleepingUpdate(allBodies, delta)
updateSleeping(u) ==
    IF u.engine.enableSleeping
    THEN [u EXCEPT !.bs = sleepingUpdate(@, u.bodies, u.delta)]
    ELSE u

\* _bodiesApplyGravity(allBodies, engine.gravity)
updateGravity(u) ==
    [u EXCEPT !.bs = bodiesApplyGravity(@, u.bodies, u.engine.gravity)]

\* if (delta > 0) _bodiesUpdate(allBodies, delta)
updateBodies(u) ==
    IF u.delta > 0
    THEN [u EXCEPT !.bs = bodiesUpdate(@, u.arr, u.bodies, 1, u.delta)]
    ELSE u

\* update all constraints (first pass, second pass)
updateConstraints(u) ==
    [u EXCEPT !.bs = constraintPass(@, u.arr, u.ks, u.bodies, u.constraints, u.delta,
                                    u.engine.constraintIterations)]

\* var collisions = detectorCollisions(detector), which sorts detector.bodies
updateCollisions(u) ==
    LET sorted == sortByBoundsX(u.bs, u.engine.detector.bodies)
    IN  [u EXCEPT !.engine.detector.bodies = sorted,
                  !.collisions = detectorCollisions(u.bs, u.arr, u.engine.pairs.table,
                                                    sorted, 1, <<>>)]

\* pairsUpdate(pairs, collisions, timestamp)
updatePairs(u) ==
    [u EXCEPT !.engine.pairs = pairsUpdate(u.bs, @, u.collisions, u.timestamp)]

\* if (engine.enableSleeping) sleepingAfterCollisions(pairs.list)
updateAfterCollisions(u) ==
    IF u.engine.enableSleeping
    THEN [u EXCEPT !.bs = afterCollisions(@, u.engine.pairs.table, u.engine.pairs.list, 1)]
    ELSE u

\* if (pairs[eventName].length > 0) trigger(engine, eventName, ...)
updateTriggerPairs(u, eventName) ==
    IF Len(u.engine.pairs[eventName]) > 0 THEN updateTrigger(u, eventName) ELSE u

\* preSolvePosition(pairs.list)
updatePreSolvePosition(u) ==
    [u EXCEPT !.bs = preSolvePosition(@, u.engine.pairs.table, u.engine.pairs.list, 1)]

\* var positionDamping = clamp(20 / engine.positionIterations, 0, 1) and
\* the engine.positionIterations calls of solvePosition
updateSolvePosition(u) ==
    LET s == solvePositionTimes([bs |-> u.bs, table |-> u.engine.pairs.table],
                                u.engine.pairs.list, u.delta,
                                [num |-> clamp(20, 0, u.engine.positionIterations),
                                 den |-> u.engine.positionIterations],
                                u.engine.positionIterations)
    IN  [u EXCEPT !.bs = s.bs, !.engine.pairs.table = s.table]

\* postSolvePosition(allBodies)
updatePostSolvePosition(u) ==
    [u EXCEPT !.bs = postSolvePosition(@, u.arr, u.bodies, 1)]

\* preSolveVelocity(pairs.list)
updatePreSolveVelocity(u) ==
    [u EXCEPT !.bs = preSolveVelocity(@, u.engine.pairs.table, u.engine.pairs.list, 1)]

\* the engine.velocityIterations calls of solveVelocity
updateSolveVelocity(u) ==
    LET s == solveVelocityTimes([bs |-> u.bs, table |-> u.engine.pairs.table],
                                u.engine.pairs.list, u.delta, u.engine.velocityIterations)
    IN  [u EXCEPT !.bs = s.bs, !.engine.pairs.table = s.table]

\* _bodiesUpdateVelocities(allBodies)
updateVelocity(u) ==
    [u EXCEPT !.bs = bodiesUpdateVelocities(@, u.bodies)]

\* _bodiesClearForces(allBodies)
updateClearForces(u) ==
    [u EXCEPT !.bs = bodiesClearForces(@, u.bodies)]

\* Engine.update up to the collision events, and all of it
updateDetect(st, delta) ==
    updateTriggerPairs(updateAfterCollisions(updatePairs(updateCollisions(
    updateConstraints(updateTrigger(updateBodies(updateGravity(updateSleeping(
    updateModified(updateAllConstraints(updateAllBodies(updateTrigger(
    updateStart(st, delta), "beforeUpdate"))))))), "beforeSolve"))))),
    "collisionStart")

update(st, delta) ==
    updateTrigger(updateClearForces(updateTriggerPairs(updateTriggerPairs(
    updateVelocity(updateSolveVelocity(updatePreSolveVelocity(updateConstraints(
    updatePostSolvePosition(updateSolvePosition(updatePreSolvePosition(
    updateDetect(st, delta)))))))), "collisionActive"), "collisionEnd")),
    "afterUpdate")

(***************************************************************************)
(* The Composite tree under its operations.  Three bodies, the third a     *)
(* part of the first, one constraint and MaxComposites composites exist.   *)
(* Construction builds a chain: each composite holds the next one, the     *)
(* first holds body 1, the second the constraint and the last body 2.      *)
(* Then any object is added to, removed from and moved between composites, *)
(* composites are cleared and the three queries are called, MaxOps times.  *)
(* An object is added only where the result is still a tree: the object is *)
(* held nowhere else and a composite is not added beneath itself.          *)
(***************************************************************************)
NoBase == <<>>

\* Composite.add(c, [the next composite, the objects c holds]) for each c
RECURSIVE BuildChain(_, _)
BuildChain(st, c) ==
    IF c > MaxComposites THEN st
    ELSE LET own == IF c = 1 THEN <<Obj("body", 1)>>
                    ELSE IF c = 2 THEN <<Obj("constraint", 1)>>
                    ELSE IF c = MaxComposites THEN <<Obj("body", 2)>>
                    ELSE <<>>
             child == IF c < MaxComposites THEN <<Obj("composite", c + 1)>> ELSE <<>>
         IN BuildChain(add(st, c, child \o own, 1), c + 1)

Built(bs) == BuildChain(CompositeState([c \in CompositeIds |-> create(2 + c)], bs), 1)

InitComposite ==
    LET c1 == bodyCreate(<< <<>> >>, 1, NoBase)
        c2 == bodyCreate(c1.arr, 2, [isStatic |-> TRUE])
        c3 == bodyCreate(c2.arr, 3, NoBase)
        p == setParts(<<c1.body, c2.body, c3.body>>, c3.arr, 1, <<3>>)
    IN /\ body = p.bs
       /\ arrays = p.arr
       /\ constraint = <<constraintCreate(p.bs, 2, NoBody, 2, 0, 0, FALSE, 0)>>
       /\ nextIdCounter = 2 + MaxComposites
       /\ composite = Built(p.bs).cs
       /\ error = "none"
       /\ lastOp = [op |-> "create", target |-> 0, touched |-> {}]
       /\ lastResult = <<>>
       /\ opCount = 0
       /\ runner = <<>>
       /\ refs = <<createRefs(1, NoBase), createRefs(2, [isStatic |-> TRUE]), createRefs(3, NoBase)>>
       /\ contactPair = <<>>
       /\ nextCategoryBits = {0}
       /\ animationFrames = NoFrames
       /\ engine = <<>>

Objects ==
    {Obj("body", b) : b \in DOMAIN body}
        \cup {Obj("constraint", k) : k \in DOMAIN constraint}
        \cup {Obj("composite", c) : c \in CompositeIds}

\* The argument lists of add, remove and move: 1..MaxObjects distinct objects
ObjectLists ==
    {objects \in UNION {[1..n -> Objects] : n \in 1..MaxObjects} :
        \A i, j \in DOMAIN objects : i # j => objects[i] # objects[j]}

\* Adding the object to c keeps the composites a tree.
Addable(cs, c, obj) ==
    /\ ~Held(cs, obj)
    /\ obj.type = "composite" => obj.ref # c /\ c \notin Descendants(cs, obj.ref)

Done(st, op, c) ==
    /\ opCount' = opCount + 1
    /\ composite' = st.cs
    /\ body' = st.bs
    /\ error' = st.err
    /\ lastOp' = [op |-> op, target |-> c, touched |-> st.touched,
                  changed |-> {r \in DOMAIN composite :
                                  Flatten(st.cs, r, "bodies") # Flatten(composite, r, "bodies")},
                  objects |-> st.objects,
                  before |-> composite[c]]
    /\ lastResult' = <<>>
    /\ UNCHANGED <<animationFrames, contactPair, nextCategoryBits, refs, runner, constraint, arrays, nextIdCounter, engine>>

Add(c, objects) ==
    /\ opCount < MaxOps
    /\ \A i \in DOMAIN objects : Addable(composite, c, objects[i])
    /\ LET st == add(CompositeState(composite, body), c, objects, 1)
       IN Done(st @@ [objects |-> objects], "add", c)

Remove(c, objects, deep) ==
    /\ opCount < MaxOps
    /\ LET st == remove(CompositeState(composite, body), c, objects, deep, 1)
       IN Done(st @@ [objects |-> <<>>], "remove", c)

Move(a, objects, b) ==
    /\ opCount < MaxOps
    /\ a # b
    /\ LET removed == remove(CompositeState(composite, body), a, objects, FALSE, 1)
       IN \A i \in DOMAIN objects : Addable(removed.cs, b, objects[i])
    /\ LET st == move(CompositeState(composite, body), a, objects, b)
       IN Done(st @@ [objects |-> <<>>], "move", a)

Clear(c, keepStatic, deep) ==
    /\ opCount < MaxOps
    /\ LET st == clear(CompositeState(composite, body), c, keepStatic, deep)
       IN Done(st @@ [objects |-> <<>>], "clear", c)

Returned(r, op, c) ==
    /\ opCount < MaxOps
    /\ opCount' = opCount + 1
    /\ composite' = r.cs
    /\ lastResult' = r.val
    /\ lastOp' = [op |-> op, target |-> c, touched |-> {}]
    /\ error' = "none"
    /\ UNCHANGED bodyVars

AllBodies(c) == Returned(allBodies(composite, c), "allBodies", c)

AllConstraints(c) == Returned(allConstraints(composite, c), "allConstraints", c)

AllComposites(c) == Returned(allComposites(composite, c), "allComposites", c)

\* Composite.setModified(composite, false, false, true), as Engine.update
\* calls it on the world
ClearModified(c) ==
    /\ opCount < MaxOps
    /\ opCount' = opCount + 1
    /\ composite' = setModified(composite, c, FALSE, FALSE, TRUE)
    /\ lastOp' = [op |-> "setModified", target |-> c, touched |-> {}]
    /\ lastResult' = <<>>
    /\ error' = "none"
    /\ UNCHANGED bodyVars

NextComposite ==
    \/ \E c \in CompositeIds, objects \in ObjectLists : Add(c, objects)
    \/ \E c \in CompositeIds, objects \in ObjectLists, deep \in BOOLEAN : Remove(c, objects, deep)
    \/ \E a, b \in CompositeIds, objects \in ObjectLists : Move(a, objects, b)
    \/ \E c \in CompositeIds, keepStatic, deep \in BOOLEAN : Clear(c, keepStatic, deep)
    \/ \E c \in CompositeIds : AllBodies(c)
    \/ \E c \in CompositeIds : AllConstraints(c)
    \/ \E c \in CompositeIds : AllComposites(c)
    \/ \E c \in CompositeIds : ClearModified(c)

SpecComposite == InitComposite /\ [][NextComposite]_vars

(***************************************************************************)
(* Claims about the Composite tree                                         *)
(***************************************************************************)
QueryField(op) ==
    CASE op = "allBodies" -> "bodies"
      [] op = "allConstraints" -> "constraints"
      [] op = "allComposites" -> "composites"

CachesCleared(c) ==
    /\ ~composite[c].cache.allBodies.valid
    /\ ~composite[c].cache.allConstraints.valid
    /\ ~composite[c].cache.allComposites.valid

Invalidated(c) ==
    \A a \in {c} \cup Containers(composite, c) : composite[a].isModified /\ CachesCleared(a)

\* C4: Composite.allBodies(c) returns the bodies c holds followed by the
\* bodies of every descendant composite, depth-first: the value returned is
\* the flattening of the subtree under c.
C4_AllBodiesIsFlattening ==
    lastOp.op = "allBodies" => lastResult = Flatten(composite, lastOp.target, "bodies")

\* C5, as the spec states it: after any add, remove or clear on a composite,
\* the composite and every composite that contains it has isModified = true
\* and its three caches cleared.
C5_AnyOperationInvalidates ==
    lastOp.op \in {"add", "remove", "clear"} => Invalidated(lastOp.target)

\* C5, amended: after an add or remove that changed a list of the composite
\* it was called on, and after any clear, that composite and every composite
\* that contains it has isModified = true and its three caches cleared.
C5_ChangeInvalidates ==
    lastOp.op \in {"add", "remove", "clear"} /\ lastOp.target \in lastOp.touched
        => Invalidated(lastOp.target)

\* C5 witness: an object was added to a composite held two levels deep.
C5_Witness ==
    /\ lastOp.op = "add"
    /\ lastOp.target \in lastOp.touched
    /\ Cardinality(Containers(composite, lastOp.target)) >= 2
    /\ error = "none"

\* C6: a call of allBodies, allConstraints or allComposites on any composite
\* returns the flattening of the composite's subtree as it is at the time of
\* the call, whatever was added, removed, moved or cleared before.
C6_QueriesReturnCurrentFlattening ==
    lastOp.op \in {"allBodies", "allConstraints", "allComposites"}
        => lastResult = Flatten(composite, lastOp.target, QueryField(lastOp.op))

(***************************************************************************)
(* Body construction.  After the modules are loaded no body exists and     *)
(* nextId has been called once, for defaults.id.  Bodies are created with  *)
(* or without an id and a parts option, parts are set, and constraints are *)
(* created, each taking an id from nextId.                                 *)
(***************************************************************************)
InitBody ==
    /\ body = <<>>
    /\ arrays = << <<>> >>
    /\ constraint = <<>>
    /\ nextIdCounter = defaultsId
    /\ composite = <<>>
    /\ error = "none"
    /\ lastOp = [op |-> "load", target |-> 0]
    /\ lastResult = <<>>
    /\ opCount = 0
    /\ runner = <<>>
    /\ refs = <<>>
    /\ contactPair = <<>>
    /\ nextCategoryBits = {0}
    /\ animationFrames = NoFrames
    /\ engine = <<>>

\* The lists of at most MaxObjects distinct existing bodies
BodyLists ==
    {parts \in UNION {[1..n -> DOMAIN body] : n \in 0..MaxObjects} :
        \A i, j \in DOMAIN parts : i # j => parts[i] # parts[j]}

\* Body.create(base).  idOption is "absent" or "nextId" (base.id is
\* Common.nextId()); partsOption is "absent", "undefined" (base.parts is
\* undefined) or "array" (base.parts is a new array holding `parts`).
BodyCreate(idOption, partsOption, parts) ==
    /\ Len(body) < MaxBodies
    /\ partsOption # "array" => parts = <<>>
    /\ LET b == Len(body) + 1
           id == nextId(nextIdCounter)
           arr == IF partsOption = "array" THEN Append(arrays, parts) ELSE arrays
           base == [f \in (IF idOption = "nextId" THEN {"id"} ELSE {})
                          \cup (IF partsOption # "absent" THEN {"parts"} ELSE {}) |->
                       IF f = "id" THEN id
                       ELSE IF partsOption = "array" THEN Len(arr) ELSE undefined]
           r == bodyCreate(arr, b, base)
       IN /\ body' = Append(body, r.body)
          /\ refs' = Append(refs, createRefs(b, base))
          /\ arrays' = r.arr
          /\ nextIdCounter' = IF idOption = "nextId" THEN id ELSE nextIdCounter
          /\ lastOp' = [op |-> "create", target |-> b, id |-> idOption,
                        parts |-> partsOption, handedOut |-> nextIdCounter]
    /\ UNCHANGED <<animationFrames, contactPair, nextCategoryBits, runner, constraint, composite, error, lastResult, opCount, engine>>

\* Body.setParts(body, parts)
SetParts(b, parts) ==
    /\ body[b].parts # undefined
    /\ LET r == setParts(body, arrays, b, parts)
       IN /\ body' = r.bs
          /\ arrays' = r.arr
    /\ lastOp' = [op |-> "setParts", target |-> b]
    /\ UNCHANGED <<animationFrames, contactPair, nextCategoryBits, refs, runner, constraint, nextIdCounter, composite, error, lastResult, opCount, engine>>

\* Constraint.create({bodyA, bodyB}) without an id option
ConstraintCreate(bodyA, bodyB) ==
    /\ Len(constraint) < MaxConstraints
    /\ LET id == nextId(nextIdCounter)
       IN /\ constraint' = Append(constraint,
                                  constraintCreate(body, id, bodyA, bodyB, 0, 0, FALSE, 0))
          /\ nextIdCounter' = id
    /\ lastOp' = [op |-> "constraintCreate", target |-> Len(constraint) + 1]
    /\ UNCHANGED <<animationFrames, contactPair, nextCategoryBits, refs, runner, body, arrays, composite, error, lastResult, opCount, engine>>

NextBody ==
    \/ \E idOption \in {"absent", "nextId"}, partsOption \in {"absent", "undefined", "array"},
          parts \in BodyLists : BodyCreate(idOption, partsOption, parts)
    \/ \E b \in DOMAIN body, parts \in BodyLists : SetParts(b, parts)
    \/ \E bodyA, bodyB \in DOMAIN body \cup {NoBody} : ConstraintCreate(bodyA, bodyB)

SpecBody == InitBody /\ [][NextBody]_vars

(***************************************************************************)
(* Claims about Body construction                                          *)
(***************************************************************************)
\* body.parts[0] === body
SelfRoot(b) ==
    /\ body[b].parts # undefined
    /\ Len(arrays[body[b].parts]) >= 1
    /\ arrays[body[b].parts][1] = b

\* C9: every body returned by Body.create, with or without a parts option,
\* has itself as parts[0], and still has after any Body.setParts.
C9_PartsStartWithBody == \A b \in DOMAIN body : SelfRoot(b)

\* C10: a body created without an explicit id has an id that differs from
\* the id of every other body and is greater than every id handed out
\* before the body was created.
C10_FreshIncreasingId ==
    lastOp.op = "create" /\ lastOp.id = "absent"
        => /\ \A b \in DOMAIN body : b # lastOp.target => body[b].id # body[lastOp.target].id
           /\ body[lastOp.target].id > lastOp.handedOut

(***************************************************************************)
(* The engine.  Three bodies 40 pixels wide lie in a row, each overlapping *)
(* the next by 2 pixels: body 3, body 2 and body 1, which is static.  Each *)
(* is created with an id, vectors and a parts option of its own, the mass  *)
(* 1 and one axis.  A constraint of stiffness 1 ties body 3 to a world     *)
(* point and is a little longer than its rest length.  The world holds the *)
(* three bodies and the constraint; composite 2 is empty and held nowhere. *)
(* Bodies 2 and 3 are created either in the collision group -1 or in no    *)
(* group.  Gravity pulls along x, away from the static body, and sleeping  *)
(* is enabled or not.  Then the engine is stepped, forces are applied,     *)
(* bodies are made static, put to sleep and moved to the left or to the    *)
(* right end of the row, objects are added to and removed from the world   *)
(* and composite 2, and Query.collides is called, MaxOps times in all.     *)
(***************************************************************************)
bodyWidth == 40 * FP

\* The options of Body.create for the engine's body `id` centred at position
bodyOptions(id, position, group) ==
    [id |-> id,
     parts |-> undefined,
     position |-> position,
     positionPrev |-> position,
     vertices |-> [min |-> position - bodyWidth \div 2, max |-> position + bodyWidth \div 2],
     collisionFilter |-> [category |-> {0}, mask |-> 0..31, group |-> group],
     force |-> 0,
     velocity |-> 0,
     positionImpulse |-> 0,
     constraintImpulse |-> 0,
     bounds |-> [min |-> position - bodyWidth \div 2, max |-> position + bodyWidth \div 2],
     mass |-> 1,
     inverseMass |-> 1]

\* The three bodies of an engine are created with these options, which
\* give each body objects of its own
EngineRefs == [b \in 1..3 |-> createRefs(b, bodyOptions(b, 0, 0))]

EngineBodies == 1..3

InitEngine ==
    \E group \in {0, -1}, enableSleeping \in BOOLEAN :
        LET c1 == bodyCreate(<< <<>> >>, 1, bodyOptions(1, 96 * FP, 0))
            c2 == bodyCreate(c1.arr, 2, bodyOptions(2, 58 * FP, group))
            c3 == bodyCreate(c2.arr, 3, bodyOptions(3, 20 * FP, group))
            bs == setStatic(<<c1.body, c2.body, c3.body>>, c3.arr, 1, TRUE)
            ks == <<constraintCreate(bs, 4, NoBody, 3, -20 * FP, 0, TRUE, 40 * FP - 10)>>
            cs == [c \in CompositeIds |-> create(4 + c)]
            st == add(CompositeState(cs, bs), world,
                      <<Obj("body", 1), Obj("body", 2), Obj("body", 3), Obj("constraint", 1)>>,
                      1)
        IN /\ body = st.bs
           /\ arrays = c3.arr
           /\ constraint = ks
           /\ nextIdCounter = 4 + MaxComposites
           /\ composite = st.cs
           /\ engine = engineCreate(enableSleeping, -(FP \div 4), Range(EventNames))
           /\ error = "none"
           /\ lastOp = [op |-> "create", target |-> 0, touched |-> {}]
           /\ lastResult = <<>>
           /\ opCount = 0
           /\ runner = <<>>
           /\ refs = EngineRefs
           /\ contactPair = <<>>
           /\ nextCategoryBits = {0}
           /\ animationFrames = NoFrames

\* What the claims need of a body as it was before a step
Snapshot(bd) ==
    [position |-> bd.position, positionPrev |-> bd.positionPrev,
     isStatic |-> bd.isStatic, isSleeping |-> bd.isSleeping,
     force |-> bd.force, constraintImpulse |-> bd.constraintImpulse, bounds |-> bd.bounds]

\* Engine.update(engine, delta)
Update(delta) ==
    /\ opCount < MaxOps
    /\ LET r == update([cs |-> composite, bs |-> body, arr |-> arrays, ks |-> constraint,
                        engine |-> engine], delta)
       IN /\ composite' = r.cs
          /\ body' = r.bs
          /\ engine' = r.engine
          /\ lastOp' = [op |-> "update", target |-> world, touched |-> {},
                        fired |-> r.fired,
                        collisions |-> r.collisions,
                        isModified |-> r.isModified,
                        bodiesChanged |-> "changed" \in DOMAIN lastOp /\ world \in lastOp.changed,
                        detectorBodies |-> r.detectorBodies,
                        constraints |-> r.constraints,
                        forced |-> r.forced,
                        before |-> [b \in DOMAIN body |-> Snapshot(body[b])]]
    /\ opCount' = opCount + 1
    /\ error' = "none"
    /\ lastResult' = <<>>
    /\ UNCHANGED <<animationFrames, contactPair, nextCategoryBits, refs, runner, constraint, arrays, nextIdCounter>>

\* An operation on one body between two steps
BodyOp(op, b, bs) ==
    /\ opCount < MaxOps
    /\ opCount' = opCount + 1
    /\ body' = writeThrough(body, bs, refs)
    /\ lastOp' = [op |-> op, target |-> b, touched |-> {}]
    /\ error' = "none"
    /\ lastResult' = <<>>
    /\ UNCHANGED <<animationFrames, contactPair, nextCategoryBits, refs, runner, composite, constraint, arrays, nextIdCounter, engine>>

\* Body.applyForce(body, body.position, force)
ApplyForce(b, force) == BodyOp("applyForce", b, [body EXCEPT ![b] = applyForce(@, force)])

\* Body.setStatic(body, isStatic)
SetStatic(b, isStatic) == BodyOp("setStatic", b, setStatic(body, arrays, b, isStatic))

\* Sleeping.set(body, isSleeping)
SleepingSet(b, isSleeping) ==
    BodyOp("sleepingSet", b, [body EXCEPT ![b] = sleepingSet(@, isSleeping)])

\* Body.setPosition(body, position)
SetPosition(b, position) == BodyOp("setPosition", b, setPosition(body, arrays, b, position))

\* Query.collides(body, bodies), bodies being the other bodies
QueryCollides(b) ==
    /\ opCount < MaxOps
    /\ opCount' = opCount + 1
    /\ lastResult' = queryCollides(body, arrays, b,
                                   SelectSeq(<<1, 2, 3>>, LAMBDA x : x # b), 1, <<>>)
    /\ lastOp' = [op |-> "query", target |-> b, touched |-> {}]
    /\ error' = "none"
    /\ UNCHANGED <<animationFrames, contactPair, nextCategoryBits, refs, runner, composite, body, constraint, arrays, nextIdCounter, engine>>

\* The objects added to and removed from the world and composite 2
EngineObjects ==
    {Obj("body", b) : b \in EngineBodies} \cup {Obj("constraint", 1), Obj("composite", 2)}

NextEngine ==
    \/ Update(baseDelta)
    \/ \E b \in {2, 3} : ApplyForce(b, 3 * FP)
    \/ \E b \in {1, 2}, isStatic \in BOOLEAN : SetStatic(b, isStatic)
    \/ \E b \in {2, 3}, isSleeping \in BOOLEAN : SleepingSet(b, isSleeping)
    \/ \E b \in {1, 2}, position \in {-18 * FP, 134 * FP} : SetPosition(b, position)
    \/ \E b \in EngineBodies : QueryCollides(b)
    \/ \E c \in {world, 2}, obj \in EngineObjects : Add(c, <<obj>>)
    \/ \E c \in {world, 2}, obj \in EngineObjects : Remove(c, <<obj>>, FALSE)

SpecEngine == InitEngine /\ [][NextEngine]_vars

(***************************************************************************)
(* Claims about the engine.  After a step lastOp holds the events in the   *)
(* order they fired, the collisions the detector returned, the list the    *)
(* detector was given, the world's constraints and each body as it was     *)
(* before the step.                                                        *)
(***************************************************************************)
Stepped == lastOp.op = "update"

Count(fired, eventName) == Cardinality({i \in DOMAIN fired : fired[i] = eventName})

\* C1: in every Engine.update the events fire in the order beforeUpdate,
\* beforeSolve, collisionStart, collisionActive, collisionEnd, afterUpdate:
\* the first two and the last exactly once, each collision event at most
\* once, and none before one that precedes it in that order.
C1_EventsInOrder ==
    Stepped =>
        /\ \A i \in DOMAIN lastOp.fired : lastOp.fired[i] \in Range(EventNames)
        /\ \A eventName \in {"beforeUpdate", "beforeSolve", "afterUpdate"} :
              Count(lastOp.fired, eventName) = 1
        /\ \A eventName \in {"collisionStart", "collisionActive", "collisionEnd"} :
              Count(lastOp.fired, eventName) <= 1
        /\ \A i, j \in DOMAIN lastOp.fired :
              i < j => IndexOf(EventNames, lastOp.fired[i]) <= IndexOf(EventNames, lastOp.fired[j])

\* C1 witness: a step in which all six events fired, one pair having
\* started, one gone on and one ended.
C1_Witness ==
    /\ Stepped
    /\ Range(lastOp.fired) = Range(EventNames)
    /\ engine.pairs.collisionStart # <<>>
    /\ engine.pairs.collisionActive # <<>>
    /\ engine.pairs.collisionEnd # <<>>

\* C2: a body whose isStatic flag is true has the same position after a step
\* as before it, whatever was done to the bodies and composites between the
\* steps.
C2_StaticBodiesStay ==
    Stepped =>
        \A b \in DOMAIN body :
            lastOp.before[b].isStatic => body[b].position = lastOp.before[b].position

\* The collision records of the last operation: those the detector returned
\* in a step, or those Query.collides returned
Records ==
    IF Stepped THEN lastOp.collisions
    ELSE IF lastOp.op = "query" THEN lastResult
    ELSE <<>>

Allowed(collision) ==
    canCollide(body[collision.parentA].collisionFilter,
               body[collision.parentB].collisionFilter)

\* C3, as the spec states it: no collision record is ever produced, by the
\* detector in a step or by a query, for two bodies whose collision filters
\* canCollide rejects.
C3_NoRecordAgainstFilter ==
    \A i \in DOMAIN Records : Allowed(Records[i])

\* C3, amended: the detector returns no collision record for two bodies
\* whose collision filters canCollide rejects.
C3_DetectorObeysFilter ==
    Stepped => \A i \in DOMAIN lastOp.collisions : Allowed(lastOp.collisions[i])

\* C3 witness: a step whose detector returned a collision and held two
\* bodies that overlap, are not both at rest and are kept apart by their
\* filters alone.
C3_Witness ==
    /\ Stepped
    /\ lastOp.collisions # <<>>
    /\ \E a, b \in Range(lastOp.detectorBodies) :
          /\ a # b
          /\ overlaps(lastOp.before[a].bounds, lastOp.before[b].bounds)
          /\ overlaps(body[a].bounds, body[b].bounds)
          /\ ~lastOp.before[a].isStatic /\ ~lastOp.before[a].isSleeping
          /\ ~body[a].isSleeping
          /\ ~canCollide(body[a].collisionFilter, body[b].collisionFilter)

\* C7: when bodies were added to or removed from the world or a composite
\* under it since the last step, the step hands the detector the world's
\* current bodies and leaves the world and every composite under it with
\* isModified = false.
C7_DetectorResynced ==
    Stepped /\ lastOp.bodiesChanged =>
        /\ Range(lastOp.detectorBodies) = Range(Flatten(composite, world, "bodies"))
        /\ \A c \in {world} \cup Descendants(composite, world) : ~composite[c].isModified

\* A collision of the step involves body b
Partnered(b) ==
    \E i \in DOMAIN lastOp.collisions :
        b \in {lastOp.collisions[i].bodyA, lastOp.collisions[i].bodyB,
               lastOp.collisions[i].parentA, lastOp.collisions[i].parentB}

\* The bounds of body b overlapped those of another body of the world
\* before the step
Touched(b) ==
    \E a \in Range(Flatten(composite, world, "bodies")) :
        a # b /\ overlaps(lastOp.before[a].bounds, lastOp.before[b].bounds)

\* A constraint of the world is attached to body b
Constrained(b) ==
    \E i \in DOMAIN lastOp.constraints :
        b \in {constraint[lastOp.constraints[i]].bodyA, constraint[lastOp.constraints[i]].bodyB}

\* C8, as the spec states it: with sleeping enabled, a body that is asleep,
\* has no force applied to it and has no colliding partner, none even
\* touching it, is still asleep after the step.
C8_SleeperStaysAsleep ==
    Stepped /\ engine.enableSleeping =>
        \A b \in DOMAIN body :
            /\ lastOp.before[b].isSleeping
            /\ lastOp.before[b].force = 0
            /\ ~Partnered(b) /\ ~Touched(b)
            => body[b].isSleeping

\* C8, amended: with sleeping enabled, a body that is asleep, has no force
\* applied to it, no colliding partner, no constraint of the world attached
\* to it and no constraint impulse left is still asleep after the step.
C8_FreeSleeperStaysAsleep ==
    Stepped /\ engine.enableSleeping =>
        \A b \in DOMAIN body :
            /\ lastOp.before[b].isSleeping
            /\ lastOp.before[b].force = 0
            /\ ~Partnered(b)
            /\ ~Constrained(b)
            /\ lastOp.before[b].constraintImpulse = 0
            => body[b].isSleeping

\* C8 witness: a body of the world that is not static went through a step
\* asleep, with no force, no partner and no constraint, while the world's
\* constraint was solved on another body.
C8_Witness ==
    /\ Stepped /\ engine.enableSleeping
    /\ lastOp.constraints # <<>>
    /\ \E b \in Range(Flatten(composite, world, "bodies")) :
          /\ ~body[b].isStatic
          /\ lastOp.before[b].isSleeping
          /\ lastOp.before[b].force = 0
          /\ ~Partnered(b)
          /\ ~Constrained(b)
          /\ lastOp.before[b].constraintImpulse = 0
          /\ body[b].isSleeping

(***************************************************************************)
(* SpecMass: bodies made by Body.create with the mass and isStatic options *)
(* and then handed to setStatic, setMass, setDensity and setInertia.       *)
(***************************************************************************)

\* The options objects given to Body.create
MassOptions ==
    {<<>>,
     [parts |-> undefined],
     [parts |-> undefined, mass |-> 1],
     [parts |-> undefined, isStatic |-> TRUE]}

\* Body.create(options)
BodyCreateOptions(options) ==
    /\ Len(body) < MaxBodies
    /\ LET b == Len(body) + 1
           r == bodyCreate(arrays, b, options)
       IN /\ body' = Append(body, r.body)
          /\ refs' = Append(refs, createRefs(b, options))
          /\ arrays' = r.arr
          /\ lastOp' = [op |-> "create", target |-> b, touched |-> {}]
    /\ UNCHANGED <<animationFrames, contactPair, nextCategoryBits, runner, constraint, composite, error, lastResult, opCount, engine,
                   nextIdCounter>>

\* Body.setMass(body, mass)
SetMass(b, mass) == BodyOp("setMass", b, [body EXCEPT ![b] = setMass(@, mass)])

\* Body.setDensity(body, density)
SetDensity(b, density) == BodyOp("setDensity", b, [body EXCEPT ![b] = setDensity(@, density)])

\* Body.setInertia(body, inertia)
SetInertia(b, inertia) == BodyOp("setInertia", b, [body EXCEPT ![b] = setInertia(@, inertia)])

NextMass ==
    \/ \E options \in MassOptions : BodyCreateOptions(options)
    \/ \E b \in DOMAIN body, isStatic \in BOOLEAN : SetStatic(b, isStatic)
    \/ \E b \in DOMAIN body : SetMass(b, 1)
    \/ \E b \in DOMAIN body : SetDensity(b, 1)
    \/ \E b \in DOMAIN body : SetInertia(b, 1)

SpecMass == InitBody /\ [][NextMass]_vars

\* C11: every body has inverseMass = 1 / mass and inverseInertia = 1 / inertia
\* while it is not static, and has both inverses 0 exactly when it is static.
C11_MassConsistency ==
    \A b \in DOMAIN body :
        /\ ~body[b].isStatic =>
               /\ body[b].inverseMass = Quotient(1, body[b].mass)
               /\ body[b].inverseInertia = Quotient(1, body[b].inertia)
        /\ (body[b].inverseMass = 0 /\ body[b].inverseInertia = 0) <=> body[b].isStatic

(***************************************************************************)
(* SpecTimeScale: the engine of SpecEngine without sleeping, stepped with  *)
(* engine.timing.timeScale 1 or 0.                                         *)
(***************************************************************************)
InitTimeScale ==
    \E timeScale \in {0, 1} :
        LET c1 == bodyCreate(<< <<>> >>, 1, bodyOptions(1, 96 * FP, 0))
            c2 == bodyCreate(c1.arr, 2, bodyOptions(2, 58 * FP, 0))
            c3 == bodyCreate(c2.arr, 3, bodyOptions(3, 20 * FP, 0))
            bs == setStatic(<<c1.body, c2.body, c3.body>>, c3.arr, 1, TRUE)
            cs == [c \in CompositeIds |-> create(4 + c)]
            st == add(CompositeState(cs, bs), world,
                      <<Obj("body", 1), Obj("body", 2), Obj("body", 3)>>, 1)
        IN /\ body = st.bs
           /\ arrays = c3.arr
           /\ constraint = <<>>
           /\ nextIdCounter = 4 + MaxComposites
           /\ composite = st.cs
           /\ engine = [engineCreate(FALSE, -(FP \div 4), Range(EventNames))
                            EXCEPT !.timing.timeScale = timeScale]
           /\ error = "none"
           /\ lastOp = [op |-> "create", target |-> 0, touched |-> {}]
           /\ lastResult = <<>>
           /\ opCount = 0
           /\ runner = <<>>
           /\ refs = EngineRefs
           /\ contactPair = <<>>
           /\ nextCategoryBits = {0}
           /\ animationFrames = NoFrames

\* engine.timing.timeScale = timeScale
SetTimeScale(timeScale) ==
    /\ opCount < MaxOps
    /\ opCount' = opCount + 1
    /\ engine' = [engine EXCEPT !.timing.timeScale = timeScale]
    /\ lastOp' = [op |-> "timeScale", target |-> world, touched |-> {}]
    /\ error' = "none"
    /\ lastResult' = <<>>
    /\ UNCHANGED <<animationFrames, contactPair, nextCategoryBits, refs, runner, composite, body, constraint, arrays, nextIdCounter>>

NextTimeScale ==
    \/ Update(baseDelta)
    \/ \E timeScale \in {0, 1} : SetTimeScale(timeScale)
    \/ \E b \in {2, 3} : ApplyForce(b, 3 * FP)
    \/ \E position \in {-18 * FP, 134 * FP} : SetPosition(1, position)

SpecTimeScale == InitTimeScale /\ [][NextTimeScale]_vars

\* The ids of the pairs whose collision the detector returned in the last
\* step
Detected == {lastOp.collisions[i].id : i \in DOMAIN lastOp.collisions}

\* C12: after every Engine.update, whatever the delta and the timeScale,
\* every pair of engine.pairs.list whose collision was not detected in that
\* step has isActive = false and contactCount = 0.
C12_UndetectedPairsInactive ==
    Stepped =>
        \A i \in DOMAIN engine.pairs.list :
            LET pair == engine.pairs.table[engine.pairs.list[i]]
            IN pair.id \notin Detected => ~pair.isActive /\ pair.contactCount = 0

\* C13: at the end of a step, where afterUpdate fires, every body held by
\* the world or by a composite under it has force 0.
C13_ForcesCleared ==
    Stepped =>
        \A b \in Range(Flatten(composite, world, "bodies")) : body[b].force = 0

(***************************************************************************)
(* Events (src/src/Events.ts).  An object is a record with an id and an    *)
(* events field that is <<>> while object.events is undefined and <<t>>    *)
(* once it is the table t from event names to arrays of callbacks.  A      *)
(* string of event names is held as the sequence of names that             *)
(* split(' ') makes of it.  A callback does nothing but record its call.   *)
(***************************************************************************)
NoCallback == "undefined"

\* Events.on(object, eventNames, callback): the loop over the names
RECURSIVE on(_, _, _, _)
on(object, names, i, callback) ==
    IF i > Len(names) THEN object
    ELSE LET name == names[i]
             events == IF object.events = <<>> THEN <<>> ELSE object.events[1]
             withName == IF name \in DOMAIN events THEN events ELSE (name :> <<>>) @@ events
         IN on([object EXCEPT !.events = <<[withName EXCEPT ![name] = Append(@, callback)]>>],
               names, i + 1, callback)

\* The loop over the names of Events.off
RECURSIVE offNames(_, _, _, _)
offNames(events, names, i, callback) ==
    IF i > Len(names) THEN events
    ELSE LET name == names[i]
             Kept(c) == c # callback
             newCallbacks == IF callback # NoCallback /\ name \in DOMAIN events
                             THEN SelectSeq(events[name], Kept)
                             ELSE <<>>
         IN offNames((name :> newCallbacks) @@ events, names, i + 1, callback)

\* Events.off(object, eventNames, callback).  eventNames is undefined, a
\* function or a string of names.  None of the objects of this repository
\* (engine, world, body, runner) has a method `keys`, so that
\* object.keys(object.events) throws a TypeError; so does
\* object.events[name] while object.events is undefined.
off(object, eventNames, callback) ==
    IF eventNames.type = "undefined"
    THEN [object |-> [object EXCEPT !.events = << <<>> >>], error |-> "none"]
    ELSE IF eventNames.type = "function"
    THEN [object |-> object, error |-> "TypeError"]
    ELSE IF object.events = <<>>
    THEN [object |-> object, error |-> "TypeError"]
    ELSE [object |-> [object EXCEPT !.events = <<offNames(@[1], eventNames.names, 1, callback)>>],
          error |-> "none"]

\* clone(event, false) with name and source set
eventClone(object, name, event) ==
    [f \in DOMAIN event \cup {"name", "source"} |->
        IF f = "name" THEN name ELSE IF f = "source" THEN object.id ELSE event[f]]

\* The inner loop of Events.trigger in reverse
callbacksApplyReversed(object, callbacks, event) ==
    [j \in DOMAIN callbacks |->
        [callback |-> callbacks[Len(callbacks) + 1 - j], this |-> object.id, event |-> event]]

\* The inner loop of Events.trigger: callbacks[j].apply(object, [eventClone])
callbacksApply(object, callbacks, event) ==
    [j \in DOMAIN callbacks |->
        [callback |-> callbacks[j], this |-> object.id, event |-> event]]

\* The loop over the names of Events.trigger; calls is the sequence of the
\* calls made
RECURSIVE triggerNames(_, _, _, _, _)
triggerNames(object, names, i, event, calls) ==
    IF i > Len(names) THEN calls
    ELSE LET name == names[i]
             events == object.events[1]
         IN triggerNames(object, names, i + 1, event,
                IF name \in DOMAIN events
                THEN calls \o callbacksApply(object, events[name],
                                             eventClone(object, name, event))
                ELSE calls)

\* Events.trigger(object, eventNames, event): the calls it makes.  event is
\* the record given, <<>> for none.
triggerCalls(object, names, event) ==
    IF object.events # <<>> /\ DOMAIN object.events[1] # {}
    THEN triggerNames(object, names, 1, event, <<>>)
    ELSE <<>>

(***************************************************************************)
(* SpecEvents: one object, held in the variable engine, on which callbacks *)
(* are subscribed, removed and triggered.  lastOp.subscriptions is the     *)
(* history the claims are stated on: the <<name, callback>> subscriptions  *)
(* made by on and not removed since, oldest first.                         *)
(***************************************************************************)
Callbacks == {"f", "g"}
NameLists == {<<"a">>, <<"b">>, <<"a", "b">>}
EventObjects == {<<>>, [name |-> "x", delta |-> baseDelta]}

InitEvents ==
    /\ engine \in {[id |-> "engine", events |-> <<>>], [id |-> "engine", events |-> << <<>> >>]}
    /\ body = <<>>
    /\ arrays = << <<>> >>
    /\ constraint = <<>>
    /\ composite = <<>>
    /\ nextIdCounter = defaultsId
    /\ error = "none"
    /\ lastOp = [op |-> "create", subscriptions |-> <<>>]
    /\ lastResult = <<>>
    /\ opCount = 0
    /\ runner = <<>>
    /\ refs = <<>>
    /\ contactPair = <<>>
    /\ nextCategoryBits = {0}
    /\ animationFrames = NoFrames

EventsOp(op, object, subscriptions, err, calls) ==
    /\ opCount < MaxOps
    /\ opCount' = opCount + 1
    /\ engine' = object
    /\ error' = err
    /\ lastResult' = calls
    /\ lastOp' = op @@ [subscriptions |-> subscriptions, before |-> engine]
    /\ UNCHANGED <<animationFrames, contactPair, nextCategoryBits, refs, runner, composite, body, constraint, arrays, nextIdCounter>>

\* Events.on(object, eventNames, callback)
On(names, callback) ==
    EventsOp([op |-> "on", names |-> names, callback |-> callback],
             on(engine, names, 1, callback),
             lastOp.subscriptions \o [i \in DOMAIN names |-> <<names[i], callback>>],
             "none", <<>>)

\* Events.off(object, eventNames, callback).  A call that throws removes no
\* subscription; off(object) removes all; off(object, names) those of the
\* names; off(object, names, callback) those of the callback to the names.
Off(eventNames, callback) ==
    LET r == off(engine, eventNames, callback)
        Stays(s) == IF r.error # "none" THEN TRUE
                    ELSE IF eventNames.type = "undefined" THEN FALSE
                    ELSE ~(s[1] \in Range(eventNames.names)
                           /\ (callback = NoCallback \/ s[2] = callback))
    IN EventsOp([op |-> "off", eventNames |-> eventNames, callback |-> callback],
                r.object, SelectSeq(lastOp.subscriptions, Stays), r.error, <<>>)

\* Events.trigger(object, eventNames, event)
Trigger(names, event) ==
    EventsOp([op |-> "trigger", names |-> names, event |-> event],
             engine, lastOp.subscriptions, "none", triggerCalls(engine, names, event))

NextEvents ==
    \/ \E names \in NameLists, callback \in Callbacks : On(names, callback)
    \/ \E names \in NameLists, callback \in Callbacks \cup {NoCallback} :
          Off([type |-> "string", names |-> names], callback)
    \/ Off([type |-> "undefined"], NoCallback)
    \/ \E callback \in Callbacks : Off([type |-> "function", callback |-> callback], NoCallback)
    \/ \E names \in NameLists, event \in EventObjects : Trigger(names, event)

SpecEvents == InitEvents /\ [][NextEvents]_vars

\* The callbacks subscribed to a name, oldest first, and the callbacks the
\* last trigger called with an event of that name, first call first
SubscribedTo(name) ==
    LET Named(s) == s[1] = name
        subs == SelectSeq(lastOp.subscriptions, Named)
    IN [i \in DOMAIN subs |-> subs[i][2]]
CalledFor(name) ==
    LET Named(call) == call.event.name = name
        calls == SelectSeq(lastResult, Named)
    IN [i \in DOMAIN calls |-> calls[i].callback]

\* C14: Events.trigger(object, names, event) calls, for each of the names,
\* the callbacks subscribed to it on the object, once per subscription and
\* in the order of subscription, each on the object with an event whose
\* name is the event name and whose source is the object; it calls nothing
\* else.
C14_TriggerCallsSubscribers ==
    lastOp.op = "trigger" =>
        /\ \A name \in Range(lastOp.names) : CalledFor(name) = SubscribedTo(name)
        /\ \A i \in DOMAIN lastResult :
              /\ lastResult[i].event.name \in Range(lastOp.names)
              /\ lastResult[i].event.source = engine.id
              /\ lastResult[i].this = engine.id
              /\ \A f \in DOMAIN lastOp.event \ {"name", "source"} :
                    lastResult[i].event[f] = lastOp.event[f]
        /\ \A i, j \in DOMAIN lastResult :
              i < j => IndexOf(lastOp.names, lastResult[i].event.name)
                          <= IndexOf(lastOp.names, lastResult[j].event.name)

\* C14 witness: a trigger of a name to which two different callbacks are
\* subscribed, with an event that has a name of its own.
C14_Witness ==
    /\ lastOp.op = "trigger"
    /\ lastOp.event # <<>>
    /\ \E name \in Range(lastOp.names) :
          /\ Len(SubscribedTo(name)) = 2
          /\ SubscribedTo(name)[1] # SubscribedTo(name)[2]
          /\ Len(CalledFor(name)) = 2

\* C18: Events.off(object, callback), the callback given in place of the
\* event names, returns normally and leaves every event of the object with
\* the callbacks it had, in order, less that callback.
C18_OffByCallback ==
    lastOp.op = "off" /\ lastOp.eventNames.type = "function" =>
        /\ error = "none"
        /\ engine.events # <<>>
        /\ lastOp.before.events # <<>> =>
              \A name \in DOMAIN lastOp.before.events[1] :
                  LET Kept(c) == c # lastOp.eventNames.callback
                  IN /\ name \in DOMAIN engine.events[1]
                     /\ engine.events[1][name] = SelectSeq(lastOp.before.events[1][name], Kept)

(***************************************************************************)
(* SpecFilter: collision groups handed out by Body.nextGroup and the       *)
(* filters made of them given to Detector.canCollide.  The module-level    *)
(* counters of Body are held in the variable engine.                       *)
(***************************************************************************)
\* Body.nextGroup(isNonColliding): the id returned and the counters after it
nextGroup(counters, isNonColliding) ==
    IF isNonColliding
    THEN [id |-> counters.nextNonCollidingGroupId,
          counters |-> [counters EXCEPT !.nextNonCollidingGroupId = @ - 1]]
    ELSE [id |-> counters.nextCollidingGroupId,
          counters |-> [counters EXCEPT !.nextCollidingGroupId = @ + 1]]

InitFilter ==
    /\ engine = [nextCollidingGroupId |-> 1, nextNonCollidingGroupId |-> -1]
    /\ body = <<>>
    /\ arrays = << <<>> >>
    /\ constraint = <<>>
    /\ composite = <<>>
    /\ nextIdCounter = defaultsId
    /\ error = "none"
    /\ lastOp = [op |-> "load"]
    /\ lastResult = <<>>
    /\ opCount = 0
    /\ runner = <<>>
    /\ refs = <<>>
    /\ contactPair = <<>>
    /\ nextCategoryBits = {0}
    /\ animationFrames = NoFrames

\* Body.nextGroup(isNonColliding)
NextGroup(isNonColliding) ==
    /\ opCount < MaxOps
    /\ opCount' = opCount + 1
    /\ LET r == nextGroup(engine, isNonColliding)
       IN /\ engine' = r.counters
          /\ lastResult' = <<r.id>>
    /\ lastOp' = [op |-> "nextGroup", isNonColliding |-> isNonColliding]
    /\ UNCHANGED <<animationFrames, contactPair, nextCategoryBits, refs, runner, composite, body, constraint, arrays, nextIdCounter, error>>

\* The groups nextGroup has returned so far
NonCollidingGroups == {g \in -MaxOps - 1 .. -1 : g > engine.nextNonCollidingGroupId}
CollidingGroups == {g \in 1 .. MaxOps + 1 : g < engine.nextCollidingGroupId}

\* The collision filters given to bodies: any group handed out or 0, the
\* default category 0x0001 or 0x0002, the default mask or 0x0002
Filters ==
    [group : NonCollidingGroups \cup CollidingGroups \cup {0},
     category : {{0}, {1}},
     mask : {0..31, {1}}]

\* Detector.canCollide(filterA, filterB)
CanCollide(filterA, filterB) ==
    /\ lastResult' = <<canCollide(filterA, filterB)>>
    /\ lastOp' = [op |-> "canCollide", filterA |-> filterA, filterB |-> filterB]
    /\ UNCHANGED <<animationFrames, contactPair, nextCategoryBits, refs, runner, composite, body, constraint, arrays, nextIdCounter, error, engine, opCount>>

NextFilter ==
    \/ \E isNonColliding \in BOOLEAN : NextGroup(isNonColliding)
    \/ \E filterA, filterB \in Filters : CanCollide(filterA, filterB)

SpecFilter == InitFilter /\ [][NextFilter]_vars

\* canCollide was called with a filter whose group is a negative id that
\* nextGroup(true) returned
NonCollidingTested ==
    /\ lastOp.op = "canCollide"
    /\ lastOp.filterA.group \in NonCollidingGroups

\* C15, as the spec states it: canCollide returns false for the filter of a
\* body whose group is a negative id returned by nextGroup(true) against the
\* filter of any other body.
C15_NonCollidingNeverCollides ==
    NonCollidingTested => lastResult = <<FALSE>>

\* C15, amended: canCollide returns false for two filters that share a
\* negative group returned by nextGroup(true), whatever their categories
\* and masks; against a filter of another group, 0 included, it returns true
\* exactly when each mask has a bit of the other's category.
C15_SameGroupNeverCollides ==
    NonCollidingTested =>
        lastResult = <<IF lastOp.filterB.group = lastOp.filterA.group THEN FALSE
                       ELSE /\ (lastOp.filterA.mask \cap lastOp.filterB.category) # {}
                            /\ (lastOp.filterB.mask \cap lastOp.filterA.category) # {}>>

\* C15 witness: canCollide called on two filters of the same negative group
\* whose categories and masks would let them collide.
C15_Witness ==
    /\ NonCollidingTested
    /\ lastOp.filterB.group = lastOp.filterA.group
    /\ (lastOp.filterA.mask \cap lastOp.filterB.category) # {}
    /\ (lastOp.filterB.mask \cap lastOp.filterA.category) # {}
    /\ lastResult = <<FALSE>>

(***************************************************************************)
(* Runner (src/src/Runner.ts).  Times are in units of 1/60 ms, so that     *)
(* 1000 ms is 60000 and the default delta 1000 / 60 ms is 1000; quotients  *)
(* are truncated to the unit.  An optional number that the code tests for  *)
(* truth (frameDelta, timeLastTick) is undefined while it is not set;      *)
(* maxUpdates is <<>> while it is not set and <<n>> once set to n.         *)
(***************************************************************************)
\* _maxFrameDelta = 1000 / 15
maxFrameDelta == 4000
\* _frameDeltaFallback = 1000 / 60
frameDeltaFallback == 1000
\* 1000 ms
second == 60000
\* _timeBufferMargin = 1.5: x * 1.5
timeBufferMargin(x) == (3 * x) \div 2

\* The events of a runner
RunnerEvents == <<"beforeTick", "tick", "beforeUpdate", "afterUpdate", "afterTick">>

\* Runner.create(options).  frameRequestId is not among the defaults: the
\* property reads as undefined until options or Runner.run give it a value.
runnerCreate(options) ==
    Spread([delta |-> 1000,
            frameRequestId |-> undefined,
            frameDelta |-> undefined,
            frameDeltaSmoothing |-> TRUE,
            frameDeltaSnapping |-> TRUE,
            frameDeltaHistory |-> <<>>,
            frameDeltaHistorySize |-> 100,
            timeBuffer |-> 0,
            timeLastTick |-> undefined,
            maxUpdates |-> <<>>,
            maxFrameTime |-> 2000,
            lastUpdatesDeferred |-> 0,
            enabled |-> TRUE,
            events |-> {}],
           options)

\* _mean(values)
RECURSIVE Sum(_)
Sum(values) == IF values = <<>> THEN 0 ELSE values[1] + Sum(Tail(values))
mean(values) == IF values = <<>> THEN 0 ELSE Sum(values) \div Len(values)

\* Math.round(x / y) for x >= 0 and y > 0
Round(x, y) == (2 * x + y) \div (2 * y)

\* Math.ceil(x / y) for x >= 0 and y > 0
Ceil(x, y) == (x + y - 1) \div y

\* The frame delta of a tick at the given time: measured, replaced by the
\* last one when unusable, smoothed and snapped; the runner with frameDelta,
\* frameDeltaHistory and timeLastTick set
tickFrameDelta(r, time) ==
    LET measured == IF r.timeLastTick = undefined THEN maxFrameDelta
                    ELSE time - r.timeLastTick
        usable == IF measured = 0 \/ r.timeLastTick = 0
                     \/ measured > Max(maxFrameDelta, r.maxFrameTime)
                  THEN (IF r.frameDelta # undefined THEN r.frameDelta ELSE frameDeltaFallback)
                  ELSE measured
        pushed == Append(r.frameDeltaHistory, usable)
        history == IF ~r.frameDeltaSmoothing THEN r.frameDeltaHistory
                   ELSE IF Len(pushed) > r.frameDeltaHistorySize
                   THEN SubSeq(pushed, Len(pushed) - r.frameDeltaHistorySize + 1, Len(pushed))
                   ELSE pushed
        window == SubSeq(history, Len(history) \div 10 + 1, (9 * Len(history)) \div 10)
        smoothed == IF r.frameDeltaSmoothing /\ mean(window) # 0 THEN mean(window) ELSE usable
        snapped == IF r.frameDeltaSnapping THEN second \div Round(second, smoothed)
                   ELSE smoothed
    IN [r EXCEPT !.frameDeltaHistory = history,
                 !.frameDelta = snapped,
                 !.timeLastTick = time]

\* One iteration of the while loop of Runner.tick, u being the result of
\* its Engine.update: beforeUpdate, the update, afterUpdate, the time buffer
\* and updateCount
tickStep(t, u) ==
    [t EXCEPT !.st = [cs |-> u.cs, bs |-> u.bs, arr |-> u.arr, ks |-> u.ks,
                      engine |-> u.engine],
              !.fired = trigger(t.runner, trigger(t.runner, @, "beforeUpdate"), "afterUpdate"),
              !.runner.timeBuffer = @ - t.runner.delta,
              !.updateCount = @ + 1]

\* runner.lastUpdatesDeferred when the loop is left by its break
tickDeferred(t) ==
    LET timeBuffer == t.runner.timeBuffer
        engineDelta == t.runner.delta
    IN [t EXCEPT !.runner.lastUpdatesDeferred =
            IF 2 * timeBuffer > 3 * engineDelta
            THEN Round(2 * timeBuffer - 3 * engineDelta, 2 * engineDelta)
            ELSE 0]

\* The while loop of Runner.tick.  t holds the runner, the engine and its
\* world, the runner events fired and updateCount; budget is the number of
\* updates after which the elapsed time measured with performance.now()
\* makes elapsedNextEstimate exceed runner.maxFrameTime.
RECURSIVE tickUpdates(_, _, _)
tickUpdates(t, maxUpdates, budget) ==
    LET engineDelta == t.runner.delta
    IN IF ~(engineDelta > 0 /\ t.runner.timeBuffer >= timeBufferMargin(engineDelta)) THEN t
       ELSE Then(Then(update(t.st, engineDelta), LAMBDA u : tickStep(t, u)),
                 LAMBDA stepped :
                     IF stepped.updateCount >= maxUpdates \/ stepped.updateCount >= budget
                     THEN tickDeferred(stepped)
                     ELSE tickUpdates(stepped, maxUpdates, budget))

\* No limit on the updates of a tick
tickMaxUpdatesUnlimited(r) == Infinity

\* var maxUpdates = runner.maxUpdates || Math.ceil(runner.maxFrameTime / engineDelta)
tickMaxUpdates(r) ==
    IF r.maxUpdates # <<>> /\ r.maxUpdates[1] # 0 THEN r.maxUpdates[1]
    ELSE Ceil(r.maxFrameTime, r.delta)

\* The start of Runner.tick: the frame delta, the time buffer, beforeTick
\* and tick
tickStart(r, st, time) ==
    LET framed == tickFrameDelta(r, time)
    IN [runner |-> [framed EXCEPT !.timeBuffer =
                        clamp(@ + framed.frameDelta, 0,
                              framed.frameDelta + timeBufferMargin(r.delta)),
                                  !.lastUpdatesDeferred = 0],
        st |-> st,
        fired |-> trigger(r, trigger(r, <<>>, "beforeTick"), "tick"),
        updateCount |-> 0]

\* The end of Runner.tick: engine.timing.lastUpdatesPerFrame and afterTick
tickEnd(r, t) ==
    [t EXCEPT !.st.engine.timing.lastUpdatesPerFrame = t.updateCount,
              !.fired = trigger(r, @, "afterTick")]

\* Runner.tick(runner, engine, time)
tick(r, st, time, budget) ==
    Then(Then(tickStart(r, st, time), LAMBDA t : tickUpdates(t, tickMaxUpdates(r), budget)),
         LAMBDA t : tickEnd(r, t))

(***************************************************************************)
(* SpecRunner: a runner created with a delta, a maxUpdates and a           *)
(* maxFrameTime option and ticked with an engine whose world is empty.     *)
(***************************************************************************)
InitRunner ==
    \E delta \in {500, 1000}, maxUpdates \in {<<>>, <<0>>, <<1>>, <<3>>},
       maxFrameTime \in {0, 2000} :
        /\ runner = runnerCreate([delta |-> delta, maxUpdates |-> maxUpdates,
                                  maxFrameTime |-> maxFrameTime,
                                  events |-> Range(RunnerEvents)])
        /\ refs = <<>>
        /\ contactPair = <<>>
        /\ nextCategoryBits = {0}
        /\ animationFrames = NoFrames
        /\ engine = engineCreate(FALSE, 0, Range(EventNames))
        /\ composite = [c \in CompositeIds |-> create(c)]
        /\ body = <<>>
        /\ arrays = << <<>> >>
        /\ constraint = <<>>
        /\ nextIdCounter = MaxComposites
        /\ error = "none"
        /\ lastOp = [op |-> "create", target |-> 0]
        /\ lastResult = <<>>
        /\ opCount = 0

\* Runner.tick(runner, engine, time), sinceLastTick after the tick before
Tick(sinceLastTick, budget) ==
    /\ opCount < MaxOps
    /\ opCount' = opCount + 1
    /\ \E t \in {tick(runner, [cs |-> composite, bs |-> body, arr |-> arrays,
                                ks |-> constraint, engine |-> engine],
                        runner.timeLastTick + sinceLastTick, budget)} :
          /\ runner' = t.runner
          /\ engine' = t.st.engine
          /\ composite' = t.st.cs
          /\ body' = t.st.bs
          /\ lastResult' = t.fired
          /\ lastOp' = [op |-> "tick", target |-> 0, updateCount |-> t.updateCount,
                        before |-> runner, time |-> runner.timeLastTick + sinceLastTick,
                        timestamp |-> engine.timing.timestamp]
    /\ error' = "none"
    /\ UNCHANGED <<animationFrames, contactPair, nextCategoryBits, refs, constraint, arrays, nextIdCounter>>

NextRunner ==
    \E sinceLastTick \in {1000, 3000, 9000}, budget \in {1, 2, Infinity} :
        Tick(sinceLastTick, budget)

SpecRunner == InitRunner /\ [][NextRunner]_vars

\* The limit of the claim: runner.maxUpdates when set, else
\* ceil(maxFrameTime / delta)
Limit(r) == IF r.maxUpdates # <<>> THEN r.maxUpdates[1] ELSE Ceil(r.maxFrameTime, r.delta)

\* The limit the tick uses: a maxUpdates of 0 counts as not set
LimitUsed(r) ==
    IF r.maxUpdates # <<>> /\ r.maxUpdates[1] # 0 THEN r.maxUpdates[1]
    ELSE Ceil(r.maxFrameTime, r.delta)

Added(type) ==
    LET Taken(obj) == /\ obj.type = type
                      /\ type = "body" => body[obj.ref].parent = obj.ref
        taken == SelectSeq(lastOp.objects, Taken)
    IN [i \in DOMAIN taken |-> taken[i].ref]

\* The last add was handed a part of a compound body
PartHanded ==
    /\ lastOp.op = "add"
    /\ \E i \in DOMAIN lastOp.objects :
          /\ lastOp.objects[i].type = "body"
          /\ body[lastOp.objects[i].ref].parent # lastOp.objects[i].ref

SensorSets == {{}, {1}, {2}, {3}}

InitSensor ==
    \E sensors \in SensorSets :
        LET Options(b, position) == bodyOptions(b, position, 0) @@ [isSensor |-> b \in sensors]
            c1 == bodyCreate(<< <<>> >>, 1, Options(1, 96 * FP))
            c2 == bodyCreate(c1.arr, 2, Options(2, 58 * FP))
            c3 == bodyCreate(c2.arr, 3, Options(3, 20 * FP))
            bs == setStatic(<<c1.body, c2.body, c3.body>>, c3.arr, 1, TRUE)
            cs == [c \in CompositeIds |-> create(4 + c)]
            st == add(CompositeState(cs, bs), world,
                      <<Obj("body", 1), Obj("body", 2), Obj("body", 3)>>, 1)
        IN /\ body = st.bs
           /\ arrays = c3.arr
           /\ constraint = <<>>
           /\ nextIdCounter = 4 + MaxComposites
           /\ composite = st.cs
           /\ engine = engineCreate(FALSE, -(FP \div 4), Range(EventNames))
           /\ error = "none"
           /\ lastOp = [op |-> "create", target |-> 0, touched |-> {}]
           /\ lastResult = <<>>
           /\ opCount = 0
           /\ runner = <<>>
           /\ refs = EngineRefs
           /\ contactPair = <<>>
           /\ nextCategoryBits = {0}
           /\ animationFrames = NoFrames

NextSensor ==
    \/ Update(baseDelta)
    \/ \E b \in {2, 3} : ApplyForce(b, 3 * FP)
    \/ \E position \in {-18 * FP, 96 * FP} : SetPosition(1, position)

SpecSensor == InitSensor /\ [][NextSensor]_vars

\* The position and velocity passes of Engine.update, on the state u the
\* step has reached when the collision events have fired
Resolved(u) ==
    updateSolveVelocity(updatePreSolveVelocity(updateConstraints(
    updatePostSolvePosition(updateSolvePosition(updatePreSolvePosition(u))))))

\* u with the sensor pairs taken out of the pair list
WithoutSensorPairs(u) ==
    [u EXCEPT !.engine.pairs.list = SelectSeq(@, LAMBDA id : ~u.engine.pairs.table[id].isSensor)]

\* What the passes decide of a body (the model has one axis and no angle)
Placement(bd) ==
    [position |-> bd.position, positionPrev |-> bd.positionPrev,
     positionImpulse |-> bd.positionImpulse]

\* The active sensor pairs of the pair list
ActiveSensorPairs(pairs) ==
    {pairs.list[i] : i \in {j \in DOMAIN pairs.list :
                               /\ pairs.table[pairs.list[j]].isSensor
                               /\ pairs.table[pairs.list[j]].isActive}}

\* The state Engine.update(engine, baseDelta) reaches from the current one
\* when its collision events have fired
AtCollisionEvents ==
    updateDetect([cs |-> composite, bs |-> body, arr |-> arrays, ks |-> constraint,
                  engine |-> engine], baseDelta)

\* C19: in every step, each active pair one of whose bodies is a sensor is
\* in the collisionStart or collisionActive list of the step, and the
\* position, positionPrev and positionImpulse of every body after the step
\* are those the position and velocity passes give when the sensor pairs are
\* taken out of the pair list.
C19_SensorPairsApart ==
    [][lastOp'.op = "update" =>
          /\ ActiveSensorPairs(engine'.pairs)
                \subseteq Range(engine'.pairs.collisionStart)
                            \cup Range(engine'.pairs.collisionActive)
          /\ \A b \in DOMAIN body :
                Placement(body'[b])
                    = Placement(Resolved(WithoutSensorPairs(AtCollisionEvents)).bs[b])]_vars

(***************************************************************************)
(* Waking by a force.  Sleeping is enabled; Body.create is given           *)
(* isSleeping = true for none or one of the two free bodies.  Forces are   *)
(* applied between steps, bodies are put to sleep and woken, and listeners *)
(* that apply a force to a body are subscribed to the engine's events, at  *)
(* most MaxCallbacks of them.                                              *)
(***************************************************************************)
MaxCallbacks == 1

InitWake ==
    \E asleep \in {{}, {2}, {3}} :
        LET Options(b, position) == bodyOptions(b, position, 0) @@ [isSleeping |-> b \in asleep]
            c1 == bodyCreate(<< <<>> >>, 1, Options(1, 96 * FP))
            c2 == bodyCreate(c1.arr, 2, Options(2, 58 * FP))
            c3 == bodyCreate(c2.arr, 3, Options(3, 20 * FP))
            bs == setStatic(<<c1.body, c2.body, c3.body>>, c3.arr, 1, TRUE)
            cs == [c \in CompositeIds |-> create(4 + c)]
            st == add(CompositeState(cs, bs), world,
                      <<Obj("body", 1), Obj("body", 2), Obj("body", 3)>>, 1)
        IN /\ body = st.bs
           /\ arrays = c3.arr
           /\ constraint = <<>>
           /\ nextIdCounter = 4 + MaxComposites
           /\ composite = st.cs
           /\ engine = engineCreate(TRUE, -(FP \div 4), Range(EventNames))
           /\ error = "none"
           /\ lastOp = [op |-> "create", target |-> 0, touched |-> {}]
           /\ lastResult = <<>>
           /\ opCount = 0
           /\ runner = <<>>
           /\ refs = EngineRefs
           /\ contactPair = <<>>
           /\ nextCategoryBits = {0}
           /\ animationFrames = NoFrames

\* Events.on(engine, name, () => Body.applyForce(body, body.position, force))
OnForce(name, b, force) ==
    /\ opCount < MaxOps
    /\ Len(engine.eventForces) < MaxCallbacks
    /\ opCount' = opCount + 1
    /\ engine' = [engine EXCEPT !.events = @ \cup {name},
                                !.eventForces = Append(@, [name |-> name, body |-> b,
                                                           force |-> force])]
    /\ lastOp' = [op |-> "on", target |-> b, touched |-> {}]
    /\ error' = "none"
    /\ lastResult' = <<>>
    /\ UNCHANGED <<animationFrames, contactPair, nextCategoryBits, refs, runner, composite, body, constraint, arrays, nextIdCounter>>

NextWake ==
    \/ Update(baseDelta)
    \/ \E b \in {2, 3} : ApplyForce(b, 3 * FP)
    \/ \E b \in {2, 3}, isSleeping \in BOOLEAN : SleepingSet(b, isSleeping)
    \/ \E name \in Range(EventNames), b \in {2, 3} : OnForce(name, b, 3 * FP)

SpecWake == InitWake /\ [][NextWake]_vars

\* C20: with sleeping enabled, a body that is asleep with a force on it
\* when a step starts is awake when the step ends, and a body that was
\* asleep when a listener applied a force to it inside a step is awake at
\* the end of the step after that one.
C20_ForceWakes ==
    [][lastOp'.op = "update" /\ engine.enableSleeping =>
          \A b \in DOMAIN body :
              \/ body[b].isSleeping /\ body[b].force # 0
              \/ lastOp.op = "update" /\ b \in lastOp.forced
              => ~body'[b].isSleeping]_vars

(***************************************************************************)
(* Bodies and the objects of `defaults`.  At most MaxBodies bodies are     *)
(* created, each with options that give it none of the object fields, the  *)
(* position, positionPrev and vertices, or all of them, and with or        *)
(* without a parts array of its own; forces are applied to them and they   *)
(* are moved.                                                              *)
(***************************************************************************)
OwnObjects == {{}, {"position", "positionPrev", "vertices"}, ObjectFields}

\* The options of Body.create that give the fields `own`, the body at
\* position, and `parts: undefined` when ownParts
objectOptions(own, position, ownParts) ==
    LET placed == bodyOptions(0, position, 0)
    IN [f \in own \cup (IF ownParts THEN {"parts"} ELSE {}) |-> placed[f]]

\* Body.create(base) with the options of objectOptions.  _initProperties
\* writes the bounds into the object body.bounds refers to.
BodyCreateObjects(own, position, ownParts) ==
    /\ Len(body) < MaxBodies
    /\ "position" \notin own => position = 0
    /\ LET b == Len(body) + 1
           base == objectOptions(own, position, ownParts)
           rf == Append(refs, createRefs(b, base))
           r == initProperties(arrays, b, Spread(defaultsNow(body, refs), base))
           spread == Append(body, [r.body EXCEPT !.bounds = defaultsNow(body, refs).bounds])
       IN /\ body' = writeThrough(spread, Append(body, r.body), rf)
          /\ refs' = rf
          /\ arrays' = r.arr
          /\ lastOp' = [op |-> "create", target |-> b, touched |-> {}]
    /\ UNCHANGED <<animationFrames, contactPair, nextCategoryBits, runner, constraint, composite, error, lastResult, opCount, engine,
                   nextIdCounter>>

NextShare ==
    \/ \E own \in OwnObjects, position \in {0, 50 * FP}, ownParts \in BOOLEAN :
          BodyCreateObjects(own, position, ownParts)
    \/ \E b \in DOMAIN body : ApplyForce(b, 3 * FP)
    \/ \E b \in DOMAIN body, position \in {0, 50 * FP} : SetPosition(b, position)

SpecShare == InitBody /\ [][NextShare]_vars

\* The fields of a body that another body's operations leave alone
OwnState(bs, arr, b) ==
    [force |-> bs[b].force, velocity |-> bs[b].velocity, positionPrev |-> bs[b].positionPrev,
     positionImpulse |-> bs[b].positionImpulse,
     constraintImpulse |-> bs[b].constraintImpulse, bounds |-> bs[b].bounds,
     collisionFilter |-> bs[b].collisionFilter, parts |-> arr[bs[b].parts]]

\* C21: an operation on one body (Body.applyForce, Body.setPosition, the
\* Body.create of another body) leaves force, velocity, positionPrev,
\* positionImpulse, constraintImpulse, bounds, collisionFilter and parts of
\* every other body as they were.
C21_NoSharedState ==
    [][\A b \in DOMAIN body :
          lastOp'.target # b => OwnState(body', arrays', b) = OwnState(body, arrays, b)]_vars

\* C22: with sleeping enabled, a body that is asleep when a step begins and
\* when it ends has the position and positionPrev it had before the step
\* (the model has one axis and no angle).
C22_SleeperStaysPut ==
    Stepped /\ engine.enableSleeping =>
        \A b \in DOMAIN body :
            lastOp.before[b].isSleeping /\ body[b].isSleeping =>
                /\ body[b].position = lastOp.before[b].position
                /\ body[b].positionPrev = lastOp.before[b].positionPrev

(***************************************************************************)
(* Removal.  Sleeping is enabled and the three bodies stand in a row in    *)
(* the world, none or one of the free ones created asleep.  The engine is  *)
(* stepped, bodies are removed from the world, the world is cleared and    *)
(* bodies are put to sleep.                                                *)
(***************************************************************************)
NextRemoval ==
    \/ Update(baseDelta)
    \/ \E b \in EngineBodies : Remove(world, <<Obj("body", b)>>, FALSE)
    \/ \E keepStatic \in BOOLEAN : Clear(world, keepStatic, FALSE)
    \/ \E b \in {2, 3} : SleepingSet(b, TRUE)

SpecRemoval == InitWake /\ [][NextRemoval]_vars

\* The pairs of the table that reference a body the world does not hold
PairsOfRemoved ==
    {id \in DOMAIN engine.pairs.table :
        LET held == Range(Flatten(composite, world, "bodies"))
            collision == engine.pairs.table[id].collision
        IN collision.bodyA \notin held \/ collision.bodyB \notin held}

\* C23: a step with delta > 0 reports in collisionEnd every pair that
\* references a body taken out of the world, and takes it out of
\* engine.pairs.table and engine.pairs.list, whether or not its bodies are
\* asleep.
C23_RemovedPairsEnded ==
    [][lastOp'.op = "update" /\ engine'.timing.lastDelta > 0 =>
          \A id \in PairsOfRemoved :
              /\ id \in Range(engine'.pairs.collisionEnd)
              /\ id \notin DOMAIN engine'.pairs.table
              /\ id \notin Range(engine'.pairs.list)]_vars

\* No element occurs twice in the list
NoDuplicate(list) == \A i, j \in DOMAIN list : list[i] = list[j] => i = j

MaxSleepUpdates == 4

InitSleep ==
    \E sleepThreshold \in {-1, 2}, speed \in {0, FP \div 5, FP}, isSleeping \in BOOLEAN :
        LET options == [bodyOptions(1, 0, 0) EXCEPT !.positionPrev = -speed]
                           @@ [sleepThreshold |-> sleepThreshold, isSleeping |-> isSleeping]
            created == bodyCreate(<< <<>> >>, 1, options)
        IN /\ body = <<created.body>>
           /\ arrays = created.arr
           /\ refs = <<createRefs(1, options)>>
           /\ contactPair = <<>>
           /\ nextCategoryBits = {0}
           /\ animationFrames = NoFrames
           /\ constraint = <<>>
           /\ nextIdCounter = 1
           /\ composite = <<>>
           /\ engine = <<>>
           /\ runner = <<>>
           /\ error = "none"
           /\ lastOp = [op |-> "create", target |-> 1, touched |-> {}]
           /\ lastResult = <<>>
           /\ opCount = 0

\* Sleeping.update(bodies, delta), bodies being every body
SleepingUpdate(delta) ==
    /\ opCount < MaxSleepUpdates
    /\ opCount' = opCount + 1
    /\ body' = sleepingUpdate(body, [b \in DOMAIN body |-> b], delta)
    /\ lastOp' = [op |-> "sleepingUpdate", target |-> 0, touched |-> {}, delta |-> delta,
                  events |-> [b \in DOMAIN body |->
                                LET call == sleepingUpdateCall(body[b], delta)
                                IN IF call.set = <<>> THEN <<>>
                                   ELSE sleepingSetEvents(call.body, call.set[1])]]
    /\ error' = "none"
    /\ lastResult' = <<>>
    /\ UNCHANGED <<animationFrames, contactPair, nextCategoryBits, refs, runner, composite, constraint, arrays, nextIdCounter, engine>>

NextSleep ==
    \/ \E delta \in {baseDelta \div 2, baseDelta, 2 * baseDelta} : SleepingUpdate(delta)
    \/ \E b \in DOMAIN body : ApplyForce(b, 3 * FP)

SpecSleep == InitSleep /\ [][NextSleep]_vars

\* The body has zero force and its motion, the biased average of its
\* motion now and body.motion of the step before, is below 0.08
Slow(bd) ==
    LET speed == getSpeed(bd)
        motion == (speed * speed) \div FP
    IN /\ bd.force = 0
       /\ (minBiasPercent * Min(bd.motion, motion)
              + (100 - minBiasPercent) * Max(bd.motion, motion)) \div 100
             < motionSleepThreshold

\* sleepCounter >= sleepThreshold / ts with ts = delta / baseDelta
Due(sleepCounter, sleepThreshold, delta) == sleepCounter * delta >= sleepThreshold * baseDelta

\* What the claim says of one call of Sleeping.update on a slow body: the
\* counter raised by one is due or not; when due the body is asleep, with
\* sleepStart triggered if it was awake and no event if it was asleep; when
\* not due the body has the raised counter, is asleep only if it was, and no
\* event is triggered.
CountedToSleep(before, after, events, delta) ==
    IF Due(before.sleepCounter + 1, before.sleepThreshold, delta)
    THEN /\ after.isSleeping
         /\ events = IF before.isSleeping THEN <<>> ELSE <<"sleepStart">>
    ELSE /\ after.sleepCounter = before.sleepCounter + 1
         /\ after.isSleeping = before.isSleeping
         /\ events = <<>>

\* C25 as stated: every body with zero force and a motion below 0.08 is
\* counted towards sleep by Sleeping.update.
C25_SlowBodyCounted ==
    [][lastOp'.op = "sleepingUpdate" =>
          \A b \in DOMAIN body :
              Slow(body[b]) =>
                  CountedToSleep(body[b], body'[b], lastOp'.events[b], lastOp'.delta)]_vars

\* C25: a body with zero force, a motion below 0.08 and a sleepThreshold
\* above zero is counted towards sleep by Sleeping.update.
C25_SlowBodyWithThresholdCounted ==
    [][lastOp'.op = "sleepingUpdate" =>
          \A b \in DOMAIN body :
              Slow(body[b]) /\ body[b].sleepThreshold > 0 =>
                  CountedToSleep(body[b], body'[b], lastOp'.events[b], lastOp'.delta)]_vars

\* C25 witness: Sleeping.update has put to sleep a body that was awake, at a
\* delta other than baseDelta.
C25_Witness ==
    /\ lastOp.op = "sleepingUpdate"
    /\ lastOp.delta # baseDelta
    /\ lastOp.events[1] = <<"sleepStart">>
    /\ body[1].isSleeping

(***************************************************************************)
(* Constraint.solveAll over lists of fixed and free constraints            *)
(***************************************************************************)
\* The end bodies (bodyA, bodyB) of the constraints of the lists solved
SolveEnds == {<<NoBody, 3>>, <<2, 3>>, <<1, 2>>, <<NoBody, NoBody>>}

\* The lists of two or three constraints between those ends
SolveLists == UNION {[1..n -> SolveEnds] : n \in 2..3}

InitSolve ==
    \E ends \in SolveLists :
        LET c1 == bodyCreate(<< <<>> >>, 1, bodyOptions(1, 96 * FP, 0))
            c2 == bodyCreate(c1.arr, 2, bodyOptions(2, 58 * FP, 0))
            c3 == bodyCreate(c2.arr, 3, bodyOptions(3, 20 * FP, 0))
            bs == setStatic(<<c1.body, c2.body, c3.body>>, c3.arr, 1, TRUE)
        IN /\ body = bs
           /\ arrays = c3.arr
           /\ refs = EngineRefs
           /\ contactPair = <<>>
           /\ nextCategoryBits = {0}
           /\ animationFrames = NoFrames
           /\ constraint = [i \in DOMAIN ends |->
                               constraintCreate(bs, 3 + i, ends[i][1], ends[i][2],
                                                0, 0, TRUE, 30 * FP)]
           /\ nextIdCounter = 3 + Len(ends)
           /\ composite = <<>>
           /\ engine = <<>>
           /\ runner = <<>>
           /\ error = "none"
           /\ lastOp = [op |-> "create", target |-> 0, touched |-> {}]
           /\ lastResult = <<>>
           /\ opCount = 0

\* Constraint.solveAll(constraints, delta)
SolveAll(constraints, delta) ==
    /\ opCount < MaxOps
    /\ opCount' = opCount + 1
    /\ \E run \in {solveAllRun(body, constraint, constraints, delta)} :
          /\ body' = run.bs
          /\ lastOp' = [op |-> "solveAll", target |-> 0, touched |-> {},
                        constraints |-> constraints, solved |-> run.solved]
    /\ error' = "none"
    /\ lastResult' = <<>>
    /\ UNCHANGED <<animationFrames, contactPair, nextCategoryBits, refs, runner, composite, constraint, arrays, nextIdCounter, engine>>

NextSolve ==
    \/ \E reversed \in BOOLEAN :
          SolveAll([i \in DOMAIN constraint |->
                       IF reversed THEN Len(constraint) + 1 - i ELSE i], baseDelta)
    \/ \E b \in {1, 2}, isStatic \in BOOLEAN : SetStatic(b, isStatic)

SpecSolve == InitSolve /\ [][NextSolve]_vars

\* Constraint k has a missing end body or a static one
FixedEnd(k) ==
    \/ k.bodyA = NoBody \/ body[k.bodyA].isStatic
    \/ k.bodyB = NoBody \/ body[k.bodyB].isStatic

\* C26: a call of Constraint.solveAll calls solve once for every entry of the
\* list, and the calls for the constraints with a missing or static end
\* body all come before the calls for the constraints between two present,
\* non-static bodies.
C26_FixedSolvedFirst ==
    lastOp.op = "solveAll" =>
        LET list == lastOp.constraints
            solved == lastOp.solved
        IN /\ Len(solved) = Len(list)
           /\ Range(solved) = DOMAIN list
           /\ \A p, q \in DOMAIN solved :
                 FixedEnd(constraint[list[solved[p]]]) /\ ~FixedEnd(constraint[list[solved[q]]])
                     => p < q

\* C26 witness: solveAll has solved a list in which a free constraint stands
\* before a constraint with a static end body and before one with a missing
\* end body.
C26_Witness ==
    /\ lastOp.op = "solveAll"
    /\ \E i, j, l \in DOMAIN lastOp.constraints :
          /\ i < j /\ i < l
          /\ ~FixedEnd(constraint[lastOp.constraints[i]])
          /\ constraint[lastOp.constraints[j]].bodyA = NoBody
          /\ LET k == constraint[lastOp.constraints[l]]
             IN k.bodyA # NoBody /\ body[k.bodyA].isStatic
    /\ Len(lastOp.solved) = Len(lastOp.constraints)

(***************************************************************************)
(* The contacts of a pair (src/src/Pair.ts, src/src/Collision.ts lines     *)
(* 156-188, src/src/Resolver.ts).  A vertex is known by its number, a      *)
(* Contact object by the number `object` it got in Pair.create.            *)
(***************************************************************************)
MaxContactOps == 6

\* The vertices of collision.bodyB and of collision.bodyA
VerticesB == 1..3
VerticesA == 4..5

\* What _findSupports can return for a body with these vertices: the
\* deepest vertex and one of its neighbours
FoundSupports(vertices) == {<<v, w>> : v \in vertices, w \in vertices} \ {<<v, v>> : v \in vertices}

\* supports[supportCount++] = vertex
PushSupport(st, vertex) ==
    [supports |-> [st.supports EXCEPT ![st.supportCount + 1] = vertex],
     supportCount |-> st.supportCount + 1]

\* Collision.collides from `find support points` on: supports is
\* collision.supports as the call found it, supportsB and supportsA what
\* the two calls of _findSupports returned, containsB[i] and containsA[i] the
\* results of contains(...) for their entries.  Entries of supports above
\* supportCount are left as they were.  Both calls of _findSupports return
\* the one array _supports, so that supportsB[0] of the last case is what the
\* second call wrote.
collidesSupports(supports, supportsB, containsB, supportsA, containsA) ==
    LET st0 == [supports |-> supports, supportCount |-> 0]
        st1 == IF containsB[1] THEN PushSupport(st0, supportsB[1]) ELSE st0
        st2 == IF containsB[2] THEN PushSupport(st1, supportsB[2]) ELSE st1
        st3 == IF st2.supportCount < 2 /\ containsA[1]
               THEN PushSupport(st2, supportsA[1]) ELSE st2
        st4 == IF st2.supportCount < 2 /\ st3.supportCount < 2 /\ containsA[2]
               THEN PushSupport(st3, supportsA[2]) ELSE st3
    IN IF st4.supportCount = 0 THEN PushSupport(st4, supportsA[1]) ELSE st4

\* Pair.update(pair, collision, timestamp): contactCount and the contacts
pairUpdateContacts(pair, collision) ==
    LET supportA == collision.supports[1]
        supportB == collision.supports[2]
        exchange == pair.contacts[2].vertex = supportA \/ pair.contacts[1].vertex = supportB
        contactA == IF exchange THEN pair.contacts[2] ELSE pair.contacts[1]
        contactB == IF exchange THEN pair.contacts[1] ELSE pair.contacts[2]
    IN [supports |-> collision.supports,
        supportCount |-> collision.supportCount,
        contactCount |-> collision.supportCount,
        contacts |-> <<[contactA EXCEPT !.vertex = supportA],
                       [contactB EXCEPT !.vertex = supportB]>>]

\* Pair.create(collision, timestamp): two new Contact objects without a vertex
pairCreateContacts(collision) ==
    pairUpdateContacts(
        [contacts |-> <<[object |-> 1, vertex |-> undefined,
                         normalImpulse |-> 0, tangentImpulse |-> 0],
                        [object |-> 2, vertex |-> undefined,
                         normalImpulse |-> 0, tangentImpulse |-> 0]>>],
        collision)

\* Resolver.solveVelocity for one pair: what it leaves in the contacts below
\* contactCount, the raw impulses of the step being given; maxFriction is
\* FP here.
solveVelocityPairContacts(pair, resting, normalImpulse, tangentImpulse) ==
    [pair EXCEPT !.contacts =
        [j \in 1..2 |->
            IF j > pair.contactCount THEN pair.contacts[j]
            ELSE [pair.contacts[j] EXCEPT
                     !.normalImpulse = IF resting THEN Min(@ + normalImpulse, 0) ELSE 0,
                     !.tangentImpulse = IF resting THEN Max(-FP, Min(@ + tangentImpulse, FP))
                                        ELSE 0]]]

InitContacts ==
    /\ InitBody
    /\ contactPair = <<>>

\* Collision.collides for the two bodies, which overlap, and Pairs.update
\* with the collision it returns
PairsUpdateCollision(supportsB, containsB, supportsA, containsA) ==
    /\ opCount < MaxContactOps
    /\ opCount' = opCount + 1
    /\ LET collision == collidesSupports(IF contactPair = <<>> THEN <<undefined, undefined>>
                                         ELSE contactPair[1].supports,
                                         supportsB, containsB, supportsA, containsA)
       IN contactPair' = IF contactPair = <<>> THEN <<pairCreateContacts(collision)>>
                         ELSE <<pairUpdateContacts(contactPair[1], collision)>>
    /\ lastOp' = [op |-> "pairsUpdate", target |-> 0, before |-> contactPair]
    /\ UNCHANGED <<animationFrames, nextCategoryBits, refs, runner, composite, body, constraint, arrays,
                   nextIdCounter, error, lastResult, engine>>

\* Resolver.solveVelocity(pairs, delta) in the step
SolveVelocity(resting, normalImpulse, tangentImpulse) ==
    /\ opCount < MaxContactOps
    /\ contactPair # <<>>
    /\ lastOp.op = "pairsUpdate"
    /\ opCount' = opCount + 1
    /\ contactPair' = <<solveVelocityPairContacts(contactPair[1], resting,
                                                  normalImpulse, tangentImpulse)>>
    /\ lastOp' = [op |-> "solveVelocity", target |-> 0]
    /\ UNCHANGED <<animationFrames, nextCategoryBits, refs, runner, composite, body, constraint, arrays,
                   nextIdCounter, error, lastResult, engine>>

\* Pairs.update in a step in which the two bodies no longer overlap: the
\* pair is deleted from pairs.table
PairsUpdateApart ==
    /\ opCount < MaxContactOps
    /\ contactPair # <<>>
    /\ lastOp.op = "solveVelocity"
    /\ opCount' = opCount + 1
    /\ contactPair' = <<>>
    /\ lastOp' = [op |-> "pairsUpdateApart", target |-> 0]
    /\ UNCHANGED <<animationFrames, nextCategoryBits, refs, runner, composite, body, constraint, arrays,
                   nextIdCounter, error, lastResult, engine>>

NextContacts ==
    \/ \E supportsB \in FoundSupports(VerticesB), supportsA \in FoundSupports(VerticesA),
          containsB, containsA \in [1..2 -> BOOLEAN] :
          /\ lastOp.op # "pairsUpdate"
          /\ PairsUpdateCollision(supportsB, containsB, supportsA, containsA)
    \/ \E resting \in BOOLEAN : SolveVelocity(resting, -FP, FP \div 2)
    \/ PairsUpdateApart

SpecContacts == InitContacts /\ [][NextContacts]_vars

\* C27: after Pair.update of an existing pair each contact has the vertex of
\* the support of the same index, and every support vertex that a contact
\* in use tracked before the update (a contact below contactCount, the ones
\* the resolver reads and writes) is held by that same Contact object, with
\* the impulses it had.
C27_ContactsKeepVertices ==
    lastOp.op = "pairsUpdate" /\ lastOp.before # <<>> =>
        LET before == lastOp.before[1]
            after == contactPair[1]
        IN /\ after.contacts[1].vertex = after.supports[1]
           /\ after.contacts[2].vertex = after.supports[2]
           /\ \A i \in 1..after.supportCount, j \in 1..before.contactCount :
                 before.contacts[j].vertex = after.supports[i] =>
                     after.contacts[i] = before.contacts[j]

(***************************************************************************)
(* The frame loop of a runner (src/src/Runner.ts run, stop, _onNextFrame,  *)
(* _cancelNextFrame).  requestAnimationFrame(callback) registers the       *)
(* callback under a new handle and returns the handle;                     *)
(* cancelAnimationFrame(handle) removes it if it is still pending.         *)
(***************************************************************************)
MaxFrameOps == 4

\* requestAnimationFrame(callback)
requestAnimationFrame(frames) ==
    [frames EXCEPT !.pending = @ \cup {frames.next}, !.next = @ + 1]

\* _onNextFrame(runner, callback): the callback is requested, and the value
\* returned is runner.frameRequestId as it was, not the handle of the request
onNextFrame(r, frames) ==
    [frames |-> requestAnimationFrame(frames), returned |-> r.frameRequestId]

\* _cancelNextFrame(runner)
cancelNextFrame(r, frames) ==
    IF r.frameRequestId # undefined
    THEN [frames EXCEPT !.pending = @ \ {r.frameRequestId}]
    ELSE frames

\* The first lines of onFrame(time): the next frame is requested and
\* runner.frameRequestId assigned
onFrameRequest(r, frames) ==
    LET requested == onNextFrame(r, frames)
    IN [runner |-> [r EXCEPT !.frameRequestId = requested.returned],
        frames |-> requested.frames]

InitFrames ==
    \E delta \in {500, 1000}, enabled \in BOOLEAN,
       options \in {NoBase, [frameRequestId |-> 1], [frameRequestId |-> 2]} :
        /\ runner = runnerCreate(options @@ [delta |-> delta, enabled |-> enabled,
                                             events |-> Range(RunnerEvents)])
        /\ refs = <<>>
        /\ contactPair = <<>>
        /\ nextCategoryBits = {0}
        /\ animationFrames = NoFrames
        /\ engine = engineCreate(FALSE, 0, Range(EventNames))
        /\ composite = [c \in CompositeIds |-> create(c)]
        /\ body = <<>>
        /\ arrays = << <<>> >>
        /\ constraint = <<>>
        /\ nextIdCounter = MaxComposites
        /\ error = "none"
        /\ lastOp = [op |-> "create", target |-> 0]
        /\ lastResult = <<>>
        /\ opCount = 0

\* Runner.run(runner, engine): onFrame(0) requests the first frame and does
\* not tick
Run ==
    /\ opCount < MaxFrameOps
    /\ animationFrames.pending = {}
    /\ opCount' = opCount + 1
    /\ LET requested == onFrameRequest([runner EXCEPT !.timeBuffer = frameDeltaFallback],
                                       animationFrames)
       IN /\ runner' = requested.runner
          /\ animationFrames' = [requested.frames EXCEPT !.stopped = FALSE]
    /\ lastOp' = [op |-> "run", target |-> 0]
    /\ error' = "none"
    /\ UNCHANGED <<contactPair, nextCategoryBits, refs, composite, body, constraint, arrays,
                   nextIdCounter, engine, lastResult>>

\* The browser runs the callback pending under `handle`: onFrame(time)
\* with time > 0
Frame(handle, sinceLastTick) ==
    /\ opCount < MaxFrameOps
    /\ handle \in animationFrames.pending
    /\ opCount' = opCount + 1
    /\ LET requested == onFrameRequest(runner, [animationFrames EXCEPT !.pending = @ \ {handle}])
           time == runner.timeLastTick + sinceLastTick
       IN /\ animationFrames' = requested.frames
          /\ IF requested.runner.enabled
             THEN \E t \in {tick(requested.runner,
                                 [cs |-> composite, bs |-> body, arr |-> arrays,
                                  ks |-> constraint, engine |-> engine], time, Infinity)} :
                     /\ runner' = t.runner
                     /\ engine' = t.st.engine
                     /\ composite' = t.st.cs
                     /\ body' = t.st.bs
                     /\ lastResult' = t.fired
                     /\ lastOp' = [op |-> "frame", target |-> 0, ticked |-> TRUE,
                                   updateCount |-> t.updateCount,
                                   stopped |-> animationFrames.stopped]
             ELSE /\ runner' = requested.runner
                  /\ lastOp' = [op |-> "frame", target |-> 0, ticked |-> FALSE,
                                updateCount |-> 0, stopped |-> animationFrames.stopped]
                  /\ UNCHANGED <<engine, composite, body, lastResult>>
    /\ error' = "none"
    /\ UNCHANGED <<contactPair, nextCategoryBits, refs, constraint, arrays, nextIdCounter>>

\* Runner.stop(runner)
Stop ==
    /\ opCount < MaxFrameOps
    /\ animationFrames.pending # {}
    /\ opCount' = opCount + 1
    /\ animationFrames' = [cancelNextFrame(runner, animationFrames) EXCEPT !.stopped = TRUE]
    /\ lastOp' = [op |-> "stop", target |-> 0]
    /\ error' = "none"
    /\ UNCHANGED <<contactPair, nextCategoryBits, refs, runner, composite, body, constraint,
                   arrays, nextIdCounter, engine, lastResult>>

NextFrames ==
    \/ Run
    \/ \E handle \in animationFrames.pending, sinceLastTick \in {500, 1000, 3000} :
          Frame(handle, sinceLastTick)
    \/ Stop

SpecFrames == InitFrames /\ [][NextFrames]_vars

\* C28: once Runner.stop has been called, and until Runner.run is called
\* again, no frame callback of the runner is pending or run: Runner.tick is
\* not run and the engine is not updated.
C28_StopEndsLoop ==
    [][animationFrames.stopped /\ lastOp'.op # "run" =>
          /\ animationFrames.pending = {}
          /\ runner' = runner
          /\ engine' = engine]_vars

(***************************************************************************)
(* SpecCategory: the categories handed out by Body.nextCategory, between   *)
(* calls of Body.nextGroup.  A 32-bit value is the set of the bits set in  *)
(* it (bit 31 is the sign bit of the int32 that `<<` yields); lastResult   *)
(* is the sequence of the values nextCategory has returned so far.         *)
(***************************************************************************)
MaxCategoryCalls == 33

\* x << 1 on 32 bits
ShiftLeft(bits) == {b + 1 : b \in bits} \cap (0..31)

\* Body.nextCategory returning _nextCategory as it was before the shift
nextCategoryBefore(bits) == [returned |-> bits, bits |-> ShiftLeft(bits)]

\* Body.nextCategory(): the value returned and _nextCategory after it
nextCategory(bits) == [returned |-> ShiftLeft(bits), bits |-> ShiftLeft(bits)]

\* Body.nextCategory()
NextCategory ==
    /\ Len(lastResult) < MaxCategoryCalls
    /\ LET r == nextCategory(nextCategoryBits)
       IN /\ nextCategoryBits' = r.bits
          /\ lastResult' = Append(lastResult, r.returned)
    /\ lastOp' = [op |-> "nextCategory"]
    /\ UNCHANGED <<animationFrames, contactPair, refs, runner, composite, body, constraint,
                   arrays, nextIdCounter, error, engine, opCount>>

\* Body.nextGroup(isNonColliding) between two calls of nextCategory
NextGroupBetween(isNonColliding) ==
    /\ opCount < MaxOps
    /\ opCount' = opCount + 1
    /\ engine' = nextGroup(engine, isNonColliding).counters
    /\ lastOp' = [op |-> "nextGroup", isNonColliding |-> isNonColliding]
    /\ UNCHANGED <<animationFrames, contactPair, nextCategoryBits, refs, runner, composite,
                   body, constraint, arrays, nextIdCounter, error, lastResult>>

NextCategories ==
    \/ NextCategory
    \/ \E isNonColliding \in BOOLEAN : NextGroupBetween(isNonColliding)

SpecCategory == InitFilter /\ [][NextCategories]_vars

\* C29: each of the first 31 values Body.nextCategory returns has exactly
\* one of the 32 bits set, is not the default category 0x0001, and differs
\* from every value returned before it.
C29_FreshCategoryBit ==
    \A n \in DOMAIN lastResult :
        n <= 31 =>
            /\ lastResult[n] \subseteq 0..31
            /\ Cardinality(lastResult[n]) = 1
            /\ lastResult[n] # {0}
            /\ \A m \in 1..(n - 1) : lastResult[m] # lastResult[n]

\* C29 witness: nextCategory has been called 32 times; the 31st call
\* returned the sign bit and the 32nd returned 0.
C29_Witness ==
    /\ Len(lastResult) >= 32
    /\ lastResult[31] = {31}
    /\ lastResult[32] = {}
    /\ nextCategoryBits = {}

(***************************************************************************)
(* SpecPairs: pairs.table and pairs.list with the Pair objects told apart. *)
(* pairs.objects[p] is the Pair object created p-th; pairs.table maps a    *)
(* pair id to the object stored under it and pairs.list is the objects in  *)
(* list order.  A collision record is held by the bodies it names and the  *)
(* pair it refers back to (0 when collision.pair is undefined).            *)
(***************************************************************************)
MaxPairSteps == 3

\* Collision.collides(bodyA, bodyB, pairs) for two overlapping bodies: the
\* record of the pair stored under Pair.id(bodyA, bodyB) when there is one,
\* else a new record with the body of the lower id as bodyA
collidesRecord(bs, pairs, a, b) ==
    LET id == pairId(bs, a, b)
    IN IF id \in DOMAIN pairs.table
       THEN pairs.objects[pairs.table[id]].collision
       ELSE [pair |-> 0,
             bodyA |-> IF bs[a].id < bs[b].id THEN a ELSE b,
             bodyB |-> IF bs[a].id < bs[b].id THEN b ELSE a]

\* Detector.collisions(detector): a record for each of the overlapping
\* pairs of bodies, in the order the detector meets them
detectorRecords(bs, pairs, overlapping) ==
    [i \in DOMAIN overlapping |-> collidesRecord(bs, pairs, overlapping[i][1], overlapping[i][2])]

\* The first loop of Pairs.update: Pair.update for a collision that refers
\* back to a pair; else Pair.create, the new pair stored in the table under
\* its id and appended to the list
RECURSIVE pairsUpdateRecords(_, _, _, _, _)
pairsUpdateRecords(bs, pairs, collisions, i, timestamp) ==
    IF i > Len(collisions) THEN pairs
    ELSE LET collision == collisions[i]
         IN IF collision.pair # 0
            THEN LET p == collision.pair
                 IN Then([pairs EXCEPT
                             !.collisionActive = IF pairs.objects[p].isActive
                                                 THEN Append(@, p) ELSE @,
                             !.objects[p] = [@ EXCEPT !.isActive = TRUE,
                                                      !.timeUpdated = timestamp,
                                                      !.collision = collision]],
                         LAMBDA s : pairsUpdateRecords(bs, s, collisions, i + 1, timestamp))
            ELSE LET p == Len(pairs.objects) + 1
                     id == pairId(bs, collision.bodyA, collision.bodyB)
                     pair == [id |-> id, isActive |-> TRUE, timeUpdated |-> timestamp,
                              collision |-> [collision EXCEPT !.pair = p]]
                 IN Then([pairs EXCEPT !.objects = Append(@, pair),
                                       !.table = (id :> p) @@ @,
                                       !.collisionStart = Append(@, p),
                                       !.list = Append(@, p)],
                         LAMBDA s : pairsUpdateRecords(bs, s, collisions, i + 1, timestamp))

\* The second loop of Pairs.update, counted being the bodies with
\* sleepCounter > 0
RECURSIVE pairsUpdateKept(_, _, _, _, _)
pairsUpdateKept(pairs, list, i, timestamp, counted) ==
    IF i > Len(list) THEN pairs
    ELSE LET p == list[i]
             pair == pairs.objects[p]
         IN IF pair.timeUpdated >= timestamp
            THEN Then([pairs EXCEPT !.list = Append(@, p)],
                      LAMBDA s : pairsUpdateKept(s, list, i + 1, timestamp, counted))
            ELSE IF pair.collision.bodyA \in counted /\ pair.collision.bodyB \in counted
            THEN Then([pairs EXCEPT !.objects[p].isActive = FALSE,
                                    !.list = Append(@, p)],
                      LAMBDA s : pairsUpdateKept(s, list, i + 1, timestamp, counted))
            ELSE Then([pairs EXCEPT !.objects[p].isActive = FALSE,
                                    !.collisionEnd = Append(@, p),
                                    !.table = [x \in DOMAIN @ \ {pair.id} |-> @[x]]],
                      LAMBDA s : pairsUpdateKept(s, list, i + 1, timestamp, counted))

\* Pairs.update(pairs, collisions, timestamp)
pairsUpdateObjects(bs, pairs, collisions, timestamp, counted) ==
    LET p0 == [pairs EXCEPT !.collisionStart = <<>>, !.collisionActive = <<>>,
                            !.collisionEnd = <<>>]
    IN Then(pairsUpdateRecords(bs, p0, collisions, 1, timestamp),
            LAMBDA p1 : pairsUpdateKept([p1 EXCEPT !.list = <<>>], p1.list, 1,
                                        timestamp, counted))

\* Pairs.clear(pairs)
pairsClearObjects(pairs) ==
    [pairs EXCEPT !.table = <<>>, !.list = <<>>, !.collisionStart = <<>>,
                  !.collisionActive = <<>>, !.collisionEnd = <<>>]

\* Three bodies, created with ids of their own (an id option) or without
InitPairs ==
    \E withIds \in BOOLEAN :
        LET Options(b) == IF withIds THEN [id |-> b] ELSE NoBase
            c1 == bodyCreate(<< <<>> >>, 1, Options(1))
            c2 == bodyCreate(c1.arr, 2, Options(2))
            c3 == bodyCreate(c2.arr, 3, Options(3))
        IN /\ body = <<c1.body, c2.body, c3.body>>
           /\ arrays = c3.arr
           /\ refs = [b \in 1..3 |-> createRefs(b, Options(b))]
           /\ constraint = <<>>
           /\ nextIdCounter = defaultsId
           /\ composite = <<>>
           /\ engine = [pairs |-> [objects |-> <<>>, table |-> <<>>, list |-> <<>>,
                                   collisionStart |-> <<>>, collisionActive |-> <<>>,
                                   collisionEnd |-> <<>>],
                        timestamp |-> 0]
           /\ runner = <<>>
           /\ contactPair = <<>>
           /\ nextCategoryBits = {0}
           /\ animationFrames = NoFrames
           /\ error = "none"
           /\ lastOp = [op |-> "create"]
           /\ lastResult = <<>>
           /\ opCount = 0

\* The pairs of bodies the detector can find overlapping, in its order
OverlappingBodies == {<< <<1, 2>> >>, << <<2, 3>> >>, << <<1, 2>>, <<2, 3>> >>,
             << <<1, 2>>, <<1, 3>>, <<2, 3>> >>, <<>>}

\* One step of the engine as far as the pairs go: Detector.collisions and
\* Pairs.update with the collisions it found
PairsUpdate(overlapping, counted) ==
    /\ opCount < MaxPairSteps
    /\ opCount' = opCount + 1
    /\ LET timestamp == engine.timestamp + 1
           collisions == detectorRecords(body, engine.pairs, overlapping)
       IN engine' = [pairs |-> pairsUpdateObjects(body, engine.pairs, collisions,
                                                  timestamp, counted),
                     timestamp |-> timestamp]
    /\ lastOp' = [op |-> "pairsUpdate", overlapping |-> overlapping]
    /\ UNCHANGED <<animationFrames, contactPair, nextCategoryBits, refs, runner, composite,
                   body, constraint, arrays, nextIdCounter, error, lastResult>>

\* Pairs.clear(pairs)
PairsClear ==
    /\ opCount < MaxPairSteps
    /\ opCount' = opCount + 1
    /\ engine' = [engine EXCEPT !.pairs = pairsClearObjects(@)]
    /\ lastOp' = [op |-> "pairsClear"]
    /\ UNCHANGED <<animationFrames, contactPair, nextCategoryBits, refs, runner, composite,
                   body, constraint, arrays, nextIdCounter, error, lastResult>>

NextPairs ==
    \/ \E overlapping \in OverlappingBodies, counted \in {{}, {1, 2}, {1, 2, 3}} :
          PairsUpdate(overlapping, counted)
    \/ PairsClear

SpecPairs == InitPairs /\ [][NextPairs]_vars

\* C30: pairs.table and pairs.list hold the same Pair objects: every pair of
\* the list is the object stored in the table under its id, every object of
\* the table is in the list, and no pair is in the list twice.
C30_TableMatchesList ==
    LET pairs == engine.pairs
    IN /\ \A i \in DOMAIN pairs.list :
             LET id == pairs.objects[pairs.list[i]].id
             IN id \in DOMAIN pairs.table /\ pairs.table[id] = pairs.list[i]
       /\ \A id \in DOMAIN pairs.table : pairs.table[id] \in Range(pairs.list)
       /\ NoDuplicate(pairs.list)

====
